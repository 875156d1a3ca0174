------------------------------ MODULE CorrMerge -----------------------------
(***************************************************************************)
(* What a group adds up: its own ring, and the accumulators that the COUNT *)
(* and SUM contributions of other instances go to.  event_count, value_sum *)
(* and value_avg decide on the two together.                               *)
(*                                                                         *)
(* Operators only; CorrGroup is the state machine.                         *)
(***************************************************************************)
EXTENDS CorrBeacon

CONSTANT CountMod   \* 2^32, one more than merge_n can hold

ASSUME MergeAssumption == CountMod \in Nat \ {0}

\* cmp_threshold and cond_satisfied_f.
Satisfies(op, observed, n) ==
  \/ op = "gte" /\ observed >= n
  \/ op = "gt"  /\ observed > n
  \/ op = "lte" /\ observed <= n
  \/ op = "lt"  /\ observed < n
  \/ op = "eq"  /\ observed = n

\* merge_n, merge_sum and merge_seen.
NothingMerged == [n |-> 0, sum |-> 0, seen |-> {}]

\* A contribution without a count stands for one event.
CountOf(c) == IF c = 0 THEN 1 ELSE c

\* Mutant of MergeCount: a contribution without a count adds nothing.
MergeCountAsIs(m, x, c) == [m EXCEPT !.n = (@ + c) % CountMod, !.sum = @ + x]

\* The accumulators only ever grow, or wrap around.
MergeCount(m, x, c) ==
  [m EXCEPT !.n = (@ + CountOf(c)) % CountMod, !.sum = @ + x]

MergeSeen(m, mask) == [m EXCEPT !.seen = @ \cup mask]

ObservedCount(r, m) == r.len + m.n

Sum(r, m) == m.sum + SumOf([k \in 1 .. r.len |-> ValAt(r, k - 1)])

\* The verdict of each type.  The average divides by a 32-bit count and is never
\* decided on nothing.
CountHolds(r, m, op, n) == Satisfies(op, ObservedCount(r, m), n)

SumHolds(r, m, op, n) == Satisfies(op, Sum(r, m), n)

AvgHolds(r, m, op, n) ==
  LET count == ObservedCount(r, m) % CountMod
  IN count # 0 /\ Satisfies(op, Sum(r, m), n * count)
=============================================================================
