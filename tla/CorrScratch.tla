---------------------------- MODULE CorrScratch -----------------------------
(***************************************************************************)
(* value_percentile and value_median under concurrent workers:             *)
(* eval_value_percentile of classify_corr.c.  It copies the live values of *)
(* the group into e->pct_scratch, sorts the copy and picks the nearest     *)
(* rank.  The group is behind its correlation's lock; pct_scratch belongs  *)
(* to the engine and is behind none.                                       *)
(*                                                                         *)
(* One group per correlation.  Its window is the queue CorrWindow shows    *)
(* the ring to be: a new value enters at the end, a full window or an      *)
(* older timestamp takes values out at the front.                          *)
(*                                                                         *)
(* intruders is a history variable: whose values the others wrote into the *)
(* scratch while a worker was using it.                                    *)
(***************************************************************************)
EXTENDS Integers, Sequences, FiniteSets, FiniteSetsExt, Functions

CONSTANTS
  Workers,
  Free,        \* the owner of an unlocked mutex
  Corrs,       \* the correlations of type value_percentile or value_median
  Percents,    \* what value_percentile may be (50 for value_median)
  MaxEvents,   \* max_events_per_group, which is also the size of pct_scratch
  Vals         \* the numbers value_field may parse to

ASSUME ScratchAssumption ==
  /\ Free \notin Workers
  /\ Percents \subseteq 0 .. 100    \* rule_valid
  /\ MaxEvents \in Nat \ {0}
  /\ Vals \subseteq Int

VARIABLES
  percent,   \* value_percentile of each correlation, constant
  window,    \* the live values of each correlation's group, oldest first
  lock,      \* st->lock: its owner
  scratch,   \* e->pct_scratch
  pc,        \* where each worker is in eval_value_percentile
  cur,       \* the correlation it evaluates
  copied,    \* how many values it has copied
  agg,       \* *out_agg
  intruders  \* history: the correlations of the other writers

vars == <<percent, window, lock, scratch, pc, cur, copied, agg, intruders>>

Init ==
  /\ percent \in [Corrs -> Percents]
  /\ window = [c \in Corrs |-> <<>>]
  /\ lock = [c \in Corrs |-> Free]
  /\ scratch = [i \in 1 .. MaxEvents |-> 0]
  /\ pc = [w \in Workers |-> "idle"]
  /\ cur \in [Workers -> Corrs]
  /\ copied = [w \in Workers |-> 0]
  /\ agg = [w \in Workers |-> 0]
  /\ intruders = [w \in Workers |-> {}]

Suffixes(s) == {SubSeq(s, i, Len(s)) : i \in 1 .. Len(s) + 1}

\* Mutant of Fits: the ring holds one value more than pct_scratch.
FitsOneMore(values) == Len(values) <= MaxEvents + 1

\* The ring's capacity.
Fits(values) == Len(values) <= MaxEvents

\* Mutant of Push: a value is pushed and evaluated without the correlation's lock.
PushUnlocked(w, c) ==
  /\ pc[w] = "idle"
  /\ \E v \in Vals : \E next \in Suffixes(Append(window[c], v)) :
       /\ next # <<>> /\ Fits(next)
       /\ window' = [window EXCEPT ![c] = next]
  /\ pc' = [pc EXCEPT ![w] = "copy"]
  /\ cur' = [cur EXCEPT ![w] = c]
  /\ UNCHANGED <<percent, lock, scratch, copied, agg, intruders>>

\* The lock is taken and the event's value is pushed, or was no number; either
\* way the window is pruned.
Push(w, c) ==
  /\ pc[w] = "idle"
  /\ lock[c] = Free
  /\ \E next \in Suffixes(window[c])
                   \cup UNION {Suffixes(Append(window[c], v)) : v \in Vals} :
       /\ Fits(next)
       /\ window' = [window EXCEPT ![c] = next]
       /\ IF next = <<>>
            THEN UNCHANGED <<lock, pc, cur>>      \* an empty window never fires
            ELSE /\ lock' = [lock EXCEPT ![c] = w]
                 /\ pc' = [pc EXCEPT ![w] = "copy"]
                 /\ cur' = [cur EXCEPT ![w] = c]
  /\ UNCHANGED <<percent, scratch, copied, agg, intruders>>

Live(w) == window[cur[w]]

\* Worker w writes into the scratch; some others are in the middle of using it.
Intrude(w) ==
  intruders' = [v \in Workers |->
    IF v # w /\ pc[v] \in {"copy", "select"} THEN intruders[v] \cup {cur[w]}
                                           ELSE intruders[v]]

\* scratch[i] = ...
Copy(w) ==
  /\ pc[w] = "copy"
  /\ copied[w] < Len(Live(w))
  /\ scratch' = [scratch EXCEPT ![copied[w] + 1] = Live(w)[copied[w] + 1]]
  /\ copied' = [copied EXCEPT ![w] = @ + 1]
  /\ Intrude(w)
  /\ UNCHANGED <<percent, window, lock, pc, cur, agg>>

\* t holds the values of s in ascending order.
Sorts(t, s) ==
  /\ \A i, j \in DOMAIN s : i < j => t[i] <= t[j]
  /\ \E p \in Bijection(DOMAIN s, DOMAIN s) : \A i \in DOMAIN s : t[i] = s[p[i]]

\* qsort of the first n entries.
Sort(w) ==
  LET n == Len(Live(w))
      copy == SubSeq(scratch, 1, n)
  IN /\ pc[w] = "copy"
     /\ copied[w] = n
     /\ \E sorted \in [1 .. n -> Range(copy)] :
          /\ Sorts(sorted, copy)
          /\ scratch' = [i \in 1 .. MaxEvents |-> IF i <= n THEN sorted[i] ELSE scratch[i]]
     /\ pc' = [pc EXCEPT ![w] = "select"]
     /\ copied' = [copied EXCEPT ![w] = 0]
     /\ Intrude(w)
     /\ UNCHANGED <<percent, window, lock, cur, agg>>

\* A percentile of 0 means the default.
Rank(c) == IF percent[c] = 0 THEN 95 ELSE percent[c]

\* Mutant of NearestRank: the rank is rounded down.
NearestRankDown(p, n) == Min({Max({(p * n) \div 100, 1}), n})

\* ceil(p/100 * n), from 1.
NearestRank(p, n) == Min({Max({(p * n + 99) \div 100, 1}), n})

Select(w) ==
  /\ pc[w] = "select"
  /\ agg' = [agg EXCEPT ![w] = scratch[NearestRank(Rank(cur[w]), Len(Live(w)))]]
  /\ pc' = [pc EXCEPT ![w] = "compare"]
  /\ UNCHANGED <<percent, window, lock, scratch, cur, copied, intruders>>

\* The verdict is taken from agg, and the lock is released.
Compare(w) ==
  /\ pc[w] = "compare"
  /\ lock' = [lock EXCEPT ![cur[w]] = Free]
  /\ pc' = [pc EXCEPT ![w] = "idle"]
  /\ agg' = [agg EXCEPT ![w] = 0]
  /\ intruders' = [intruders EXCEPT ![w] = {}]
  /\ UNCHANGED <<percent, window, scratch, cur, copied>>

Next ==
  \E w \in Workers :
    \/ \E c \in Corrs : Push(w, c)
    \/ Copy(w) \/ Sort(w) \/ Select(w) \/ Compare(w)

Spec == Init /\ [][Next]_vars

-----------------------------------------------------------------------------
\* The types of the variables: no index leaves pct_scratch.
TypeOK ==
  /\ percent \in [Corrs -> Percents]
  /\ window \in [Corrs -> Seq(Vals)]
  /\ \A c \in Corrs : Len(window[c]) <= MaxEvents
  /\ lock \in [Corrs -> Workers \cup {Free}]
  /\ scratch \in [1 .. MaxEvents -> Vals \cup {0}]
  /\ pc \in [Workers -> {"idle", "copy", "select", "compare"}]
  /\ cur \in [Workers -> Corrs]
  /\ copied \in [Workers -> 0 .. MaxEvents]
  /\ agg \in [Workers -> Vals \cup {0}]
  /\ intruders \in [Workers -> SUBSET Corrs]

AtMost(s, x) == Cardinality({i \in DOMAIN s : s[i] <= x})

\* x is the nearest-rank percentile p of s: the least of its values that at
\* least p percent of its values do not exceed.
IsPercentile(x, p, s) ==
  LET enough == {y \in {s[i] : i \in DOMAIN s} : 100 * AtMost(s, y) >= p * Len(s)}
  IN x \in enough /\ \A y \in enough : x <= y

Exact(w) == IsPercentile(agg[w], Rank(cur[w]), Live(w))

\* The aggregate the verdict is taken from is the percentile of the group's own
\* live window (value_percentile: "exact from the ring"), whatever order the workers
\* run in, unless one of them evaluated another correlation meanwhile: the lock of a
\* correlation keeps the scratch from all who evaluate the same one.
PercentileExact ==
  \A w \in Workers :
    pc[w] = "compare" => Exact(w) \/ \E c \in intruders[w] : c # cur[w]

\* "SAFE for concurrent corr_on_event from multiple caller threads ... workers
\* evaluating DIFFERENT correlations proceed in parallel" (classify_corr.h): what
\* a worker computes for one correlation holds while others compute theirs.
ParallelEvaluationSafe == \A w \in Workers : pc[w] = "compare" => Exact(w)
=============================================================================
