------------------------------ MODULE CorrRing ------------------------------
(***************************************************************************)
(* The bounded event ring of one correlation group: ev_ts, ev_head,        *)
(* ev_len, ev_cap and the value array ev_val that moves in lockstep with   *)
(* ev_ts (classify_corr.c, struct group).  event_count and raw beaconing   *)
(* use the timestamps alone, value_sum, value_avg, value_percentile and    *)
(* value_median the timestamps and the values.                             *)
(*                                                                         *)
(* Operators only: the ring is a record.  CorrWindow turns it into a state *)
(* machine; CorrScratch rests on the queue CorrWindow shows it to be.      *)
(***************************************************************************)
EXTENDS Integers, FiniteSetsExt

CONSTANT MaxEvents   \* max_events_per_group: the capacity of every ring

\* group_new turns a capacity of 0 into 1, so a ring has at least one slot.
ASSUME MaxEventsAssumption == MaxEvents \in Nat \ {0}

Slots == 0 .. MaxEvents - 1

\* Every ring over the given timestamps and values.
RingOf(Times, Values) ==
  [ts   : [Slots -> Times],
   val  : [Slots -> Values],
   head : Slots,
   len  : 0 .. MaxEvents]

\* A new group's ring.  The arrays come from malloc: what the free slots hold is
\* irrelevant, since only live entries are read.
EmptyRing == [ts   |-> [i \in Slots |-> 0],
              val  |-> [i \in Slots |-> 0],
              head |-> 0,
              len  |-> 0]

\* The slot of the k-th oldest live entry, k from 0.
SlotOf(r, k) == (r.head + k) % MaxEvents

TsAt(r, k)  == r.ts[SlotOf(r, k)]
ValAt(r, k) == r.val[SlotOf(r, k)]

IsFull(r) == r.len = MaxEvents

\* Mutants of Store: the length grows past the capacity; the value does not go
\* to the slot of its timestamp.
StorePastCap(r, t, v) ==
  [r EXCEPT !.ts[SlotOf(r, r.len)] = t,
            !.val[SlotOf(r, r.len)] = v,
            !.len = r.len + 1]

StoreOutOfStep(r, t, v) ==
  [ts   |-> [r.ts EXCEPT ![SlotOf(r, r.len)] = t],
   val  |-> [r.val EXCEPT ![r.head] = v],
   head |-> IF IsFull(r) THEN SlotOf(r, 1) ELSE r.head,
   len  |-> IF IsFull(r) THEN r.len ELSE r.len + 1]

\* A full ring overwrites its oldest entry, any other appends at the tail.
Store(r, t, v) ==
  LET slot == IF IsFull(r) THEN r.head ELSE SlotOf(r, r.len)
  IN [ts   |-> [r.ts EXCEPT ![slot] = t],
      val  |-> [r.val EXCEPT ![slot] = v],
      head |-> IF IsFull(r) THEN SlotOf(r, 1) ELSE r.head,
      len  |-> IF IsFull(r) THEN r.len ELSE r.len + 1]

\* Mutant of PruneCount: an entry on the edge of the window goes too.
PruneCountEdge(r, windowStart) ==
  Min({k \in 0 .. r.len : k = r.len \/ TsAt(r, k) > windowStart})

\* ev_prune pops from the head while the head is older than the window, and
\* stops at the first entry that is not: the entries behind it stay whatever
\* their timestamps.
PruneCount(r, windowStart) ==
  Min({k \in 0 .. r.len : k = r.len \/ TsAt(r, k) >= windowStart})

Prune(r, windowStart) ==
  LET k == PruneCount(r, windowStart)
  IN [r EXCEPT !.head = SlotOf(r, k), !.len = r.len - k]

\* Mutant of Push: the window is not pruned.
PushOnly(r, windowStart, t, v) == Store(r, t, v)

\* The push of eval_event_count, ev_push_val and eval_beaconing_raw.
Push(r, windowStart, t, v) == Prune(Store(r, t, v), windowStart)
=============================================================================
