---------------------------- MODULE CorrDistinct ----------------------------
(***************************************************************************)
(* The distinct set of a value_count group: dset_t of classify_corr.c.     *)
(* Its hash table and its LRU list always hold the same entries, so it is  *)
(* modelled as the list, least recently used first.                        *)
(*                                                                         *)
(* Operators only; CorrGroup is the state machine.                         *)
(***************************************************************************)
EXTENDS Integers, Sequences, SequencesExt

CONSTANT MaxDistinct   \* max_distinct; corr_engine_new turns 0 into the default

ASSUME MaxDistinctAssumption == MaxDistinct \in Nat \ {0}

ValuesOf(d) == {d[i].val : i \in DOMAIN d}

\* The entries of the list at the given positions, in order.
KeepAt(d, positions) ==
  FoldLeft(LAMBDA kept, i : IF i \in positions THEN Append(kept, d[i]) ELSE kept,
           <<>>, [i \in DOMAIN d |-> i])

\* Mutant of DropOld: expiry stops at the first entry inside the window.
DropOldFront(d, windowStart) ==
  KeepAt(d, {i \in DOMAIN d : \E j \in 1 .. i : d[j].ts >= windowStart})

\* Entries out of the window go, wherever they are in the list.
DropOld(d, windowStart) == KeepAt(d, {i \in DOMAIN d : d[i].ts >= windowStart})

Without(d, v) == KeepAt(d, {i \in DOMAIN d : d[i].val # v})

\* Mutant of EvictOldest: room is made for one entry too many.
EvictLate(d) == IF Len(d) > MaxDistinct THEN Tail(d) ELSE d

\* At the cap the least recently used value makes room.
EvictOldest(d) == IF Len(d) >= MaxDistinct THEN Tail(d) ELSE d

\* Mutant of ObserveValue: the window is not applied.
ObserveValueForever(d, v, t, windowStart, allocated) ==
  Append(IF v \in ValuesOf(d) THEN Without(d, v) ELSE EvictOldest(d),
         [val |-> v, ts |-> t])

\* dset_observe.  A value already there takes the event's timestamp, be it older,
\* and becomes the most recent; a new one is admitted if it can be allocated.
ObserveValue(d, v, t, windowStart, allocated) ==
  LET live  == DropOld(d, windowStart)
      entry == [val |-> v, ts |-> t]
  IN IF v \in ValuesOf(live)
       THEN Append(Without(live, v), entry)
       ELSE IF allocated THEN Append(EvictOldest(live), entry)
                         ELSE EvictOldest(live)
=============================================================================
