----------------------------- MODULE CorrBeacon -----------------------------
(***************************************************************************)
(* Beaconing: is the activity of a group periodic?  eval_beaconing_raw     *)
(* looks at the gaps between the events of the ring,                       *)
(* eval_beaconing_bucketed at the gaps between the active buckets of a     *)
(* histogram of the window.  The code computes with doubles; here the      *)
(* inequality is cleared of fractions.                                     *)
(*                                                                         *)
(* Operators only; CorrGroup is the state machine.                         *)
(***************************************************************************)
EXTENDS CorrRing, Sequences, SequencesExt

CONSTANTS
  NBuckets,    \* beacon_n_buckets, in bucketed mode
  CvPermille,  \* beacon_cv_permille
  Presence     \* BEACON_PRESENCE_MIN_PERMILLE

ASSUME BeaconAssumption ==
  NBuckets \in Nat \ {0, 1} /\ CvPermille \in Nat \ {0} /\ Presence \in Nat

SumOf(s) == FoldLeft(LAMBDA a, b : a + b, 0, s)

Gaps(ts) == [i \in 1 .. Len(ts) - 1 |-> ts[i + 1] - ts[i]]

\* The gaps have a positive mean, and their variance is at most (tolerance *
\* mean)^2; both sides times the cube of the number of gaps.
Regular(gaps) ==
  LET n   == Len(gaps)
      sum == SumOf(gaps)
      dev == SumOf([i \in 1 .. n |-> (n * gaps[i] - sum) * (n * gaps[i] - sum)])
  IN /\ n > 0 /\ sum > 0
     /\ 1000 * 1000 * dev <= n * (CvPermille * sum) * (CvPermille * sum)

\* A coefficient of variation takes two gaps, whatever cond_count says.
Enough(n, condCount) == n >= condCount /\ n >= 3

-----------------------------------------------------------------------------
\* Raw mode.

Times(r) == [k \in 1 .. r.len |-> TsAt(r, k - 1)]

PeriodicTimes(ts, condCount) == Enough(Len(ts), condCount) /\ Regular(Gaps(ts))

-----------------------------------------------------------------------------
\* Bucketed mode.  A slot of the histogram holds the epoch of the bucket it
\* counts; with a count of 0 it is empty.

NoHistogram == <<>>   \* bbuckets is allocated by the first event
EmptySlot   == -1

EmptyHistogram == [s \in 0 .. NBuckets - 1 |-> EmptySlot]

Epoch(t, span) == (t * NBuckets) \div span

\* Mutant of Bump: a slot in use is not reclaimed.
BumpFree(h, e) == IF h[e % NBuckets] = EmptySlot THEN [h EXCEPT ![e % NBuckets] = e] ELSE h

\* The event's bucket takes its slot, whatever epoch the slot held.
Bump(h, e) == [h EXCEPT ![e % NBuckets] = e]

\* The active buckets of the window that ends at epoch now.
Active(h, now) ==
  {e \in Max({0, now - (NBuckets - 1)}) .. now : h[e % NBuckets] = e}

\* Enough active buckets, in most of the span they cover, at regular distances.
PeriodicEpochs(active, condCount) ==
  /\ Enough(Cardinality(active), condCount)
  /\ 1000 * Cardinality(active) >= Presence * (Max(active) - Min(active) + 1)
  /\ Regular(Gaps(SetToSortSeq(active, <)))
=============================================================================
