# libsigma: TLA+ models of the matcher and the correlation engine

libsigma matches single events against compiled Sigma rules and correlates the
matches over time.  This directory holds TLA+ modules that model the parts of
the library with state worth checking, the TLC configurations that check them
on small instances, and proofs that TLAPS checks for every value of the
constants.  Every definition is translated from the source; `PROJECT.json`
(`map`) gives the lines each one stands for.

## Inventory

A caller hands each event to `sigma_eval_run`, which returns the ids of the
rules that fired, and these ids, with a timestamp and a callback for field
values, to `corr_on_event`.

| Part | Source | State | Operations |
|------|--------|-------|------------|
| Correlation engine | `classify_corr.c` | per correlation: a group map behind a mutex; `last_sweep` behind `sweep_lock`; `pct_scratch` behind none; relaxed counters | `corr_on_event(_apply)`, `corr_on_contribution`, `sweep_if_due` |
| Group map | `classify_corr.c` | hash table, LRU list, count | get-or-create with LRU eviction, drop expired, remove |
| Group | `classify_corr.c` | event ring, distinct set, seen table, ordered progress, watermark buffer, beacon histogram, merge accumulators, `last_update`, `fired_until` | one evaluator per correlation type |
| Contributions, owner | `classify_corr.c`, `contrib_wire.c` | merge accumulators in the group | merge of partial results from other instances; JSON form; owner hash |
| Matcher | `sigma_match.c` | read-only database; per-thread scratch with generation stamps | routing to buckets, prefilter, RPN conditions |
| Literal prefilter | `sigma_teddy.h`, `sigma_simd.h` | needle tables; per-thread confirmation stamps | scan a field value for needles |
| Formats | `sigma_format.c`, `corr_format.c` | none after load | serialise, load and validate |
| Event time | `event_time.c` | none | parse a timestamp |
| CLI, tests, fuzzers, benchmarks, `reference/` | | | harnesses |

What is hard: several worker threads call the engine at once, each with a
timestamp it took earlier; a group may be evicted, swept or fail to be allocated
between two events of its key; timestamps come out of order under event time;
every structure of a group is bounded and does something different when full.
`PROJECT.json` lists these hazards at their lines, with the properties that
cover them.

What makes each part correct:

- *ring*: it holds the newest events of the window, in arrival order, each with
  its value, and what it lost is counted;
- *group map*: its three views agree and never exceed the cap;
- *engine*: groups are used only under their lock, each correlation sees an
  event once, every call returns, sweeps are spaced, two fires of a group are a
  window apart;
- *percentile*: the aggregate is the percentile of the group's own window;
- *distinct, temporal, ordered*: the verdict is what the events in the window
  say, and never rests on events that are not in it;
- *aggregates, beaconing*: sum, count and average are those of the events in the
  window, wherever they were seen; the period is measured on the events of the
  window and no others;
- *contributions*: merging a partial result decides what the events it stands for
  would have decided;
- *matcher*: every event gets the rules in its scope that match it, each once,
  whatever was evaluated before on the same scratch and with the prefilter on or
  off;
- *prefilter*: the scan reports the needles that occur, each once, and a rule is
  verified when all its clauses have an atom that holds;
- *loader*: what it accepts cannot make the prefilter prune a rule that matches.

## Modules

| Module | Models | Form |
|--------|--------|------|
| `CorrRing` | the ring: `ev_ts`, `ev_val`, `ev_head`, `ev_len`, `ev_prune` | operators |
| `CorrWindow` | the window of one group over time, with the log of its events as history | state machine over `CorrRing` |
| `CorrQueue` | what the ring promises: a queue of bounded length that drops its oldest entries | abstract state machine |
| `FoldProofs` | induction over the naturals, folds as traces | lemmas |
| `CorrRingProofs` | what the ring operators do | lemmas over `FoldProofs` |
| `CorrWindowProofs` | proofs about `CorrWindow`, its refinement of `CorrQueue` included | theorems over `CorrRingProofs` |
| `CorrGroups` | the group map: `cstate_*` | operators |
| `CorrEngine` | workers, locks, the sweep, the walk over the rid index | state machine over `CorrGroups` |
| `CorrFires` | the same with the history of fires and evictions | `CorrEngine` and history variables |
| `CorrEngineProofs` | what each operation on a map keeps; proofs about `CorrEngine` and `CorrFires` | theorems |
| `CorrScratch` | `eval_value_percentile` and the shared scratch buffer | state machine |
| `CorrScratchProofs` | proofs about `CorrScratch` | theorems |
| `CorrDistinct` | `dset_observe` | operators |
| `CorrTemporal` | seen table, ordered progress, watermark buffer | operators |
| `CorrBeacon` | the variance test, the histogram of bucketed beaconing | operators |
| `CorrMerge` | comparison operators, merge accumulators, sum, count and average | operators |
| `CorrGroup` | one group of any type but percentile and median, fed events and contributions | state machine over the operators above and `CorrRing` |
| `CorrTemporalProofs` | proofs about the temporal and ordered types of `CorrGroup` | theorems over `CorrRingProofs` |
| `CorrGroupProofs` | proofs about its distinct set, its aggregates, its two modes of beaconing and the types of any group | theorems over `CorrTemporalProofs` |
| `SigmaTeddy` | the literal scan and its scratch | operators |
| `SigmaRules` | predicates, selections, lazy conditions | operators over `SigmaTeddy` |
| `SigmaMeaning` | what a database says of an event: scope, selections, conditions, each in full | operators over `SigmaRules` |
| `SigmaLoad` | what `sigma_db_load_buffer` accepts and `sigma_db_finalize` derives | operators over `SigmaMeaning` |
| `SigmaSpec` | what the matcher promises, without scratch or prefilter | abstract state machine; the scope and the meaning of a rule are parameters |
| `SigmaMatch` | the matcher over loads, events, prefilter settings and linear runs | state machine over `SigmaLoad`, implements `SigmaSpec` |
| `SigmaMatchProofs` | proofs about the scan, the matcher's scratch, its masks, candidates, verdicts and routing, and its refinement of `SigmaSpec` | theorems over `FoldProofs` |
| `MC*` | constants for TLC | |

Operators that a module calls "Mutant of X" are variants of X with a plausible
bug; no specification uses them.  Putting one in the place of X makes the
property it is paired with in `PROJECT.json` fail, which shows what the property
guards against.

### How the models relate to the code

*CorrWindow.* `Observe` is `eval_event_count` or `ev_push_val` (store with
overwrite, then prune), `Age` the paths that prune without storing (a value that
is no number, a COUNT or SUM contribution), `Refuse` the failed allocation of
`ev_val`.  Timestamps are integers; only their order and differences matter.
The clock may lag by `MaxLag`, because under `event_time_ordering`, or with
several workers, a timestamp may be older than one already seen.

*CorrEngine.* A worker's `pc` stands where another worker may come in between:

    idle -> sweep -> (due -> start -> sweepState -> drop ...) -> walk
    walk -> lock -> admit -> eval -> walk ... -> idle

One action per branch: the failed trylock, the first call, not due, the sweep of
a state, the failed allocation of `visited` (nothing is done) or of a group (the
LRU group is already gone), a rid selecting a correlation twice, a missing field
or a refusing `apply`, no fire, a suppressed fire, a fire.  What a type computes
is a nondeterministic verdict.  `corr_on_contribution` takes the same path with
one candidate.  `out[]`, `grp_scratch` and the counters are not modelled.  The
early return for no hits in `corr_on_event_apply` is unreachable: a correlation
is selected through one of its own base rules.

*CorrScratch.* `Copy` moves one value at a time, so that two workers on
different correlations can meet inside the loop.  The sort is one step; finer
steps would only add outcomes to the violation found.  It leaves an ascending
rearrangement of what was copied (`Sorts`): `qsort` promises no more, and nothing
depends on which one.  Each correlation has its `percent`, any of `Percents`, chosen
in the initial state.  `intruders` is history: the correlations of the workers that
wrote into the scratch while a worker had its copy there.

*CorrGroup.* One action per branch of the dispatch on the type in
`corr_on_event_apply` and on the kind in `corr_on_contribution`; each contains
everything that branch changes, a failed allocation of `ev_val`, `bbuckets` or a
distinct entry included.  A boolean condition (an RPN program over at most 64
base rules) is the set of seen masks it accepts.  The rule and the clock mode are
chosen in the initial state and stay.  Only the contributions that
`corr_contrib_kind_for` names for a type are sent to it.  Values are integers, so
sums do not round; averages and variances are compared with both sides
multiplied out.  `CountMod` stands for 2^32.  `value_sum` and
`value_avg` add values up, so with them the values are integers
(`GroupAssumption`); every other type only compares them, if at all.

The loops of the group code are folds and comprehensions rather than steps:
`dset_observe`'s walk over the list is `KeepAt` (the entries at some positions, in
order), `hit_buf` is the set of base rules that fit, and the flush of the watermark
buffer folds `FlushOne` over the hits, each replayed or kept in the order it has.

*SigmaMatch.* A rule database is a record of tables, as the loader leaves them;
words are sequences of bytes, because case folding, hashing and chunks are what
the scan can get wrong.  `Load` is `sigma_db_load_buffer`, `sigma_db_finalize`
and `sigma_eval_create`; `Run` is `sigma_eval_run`, in three branches
(`RunPrefiltered`, `RunBuckets`, and `RunAllRules` when nothing routes the
event); `RunLinear` is `sigma_eval_run_linear`.  The memo, `gen`, `rule_gen`,
`rule_mask`, `eval_done` and the scan's stamps are variables and live from event
to event, as in the code.  `call`, `pre` and `marks` are history.  Two things the
code leaves to its build are constants here: the hash is the remainder by
`HashSize`, and a chunk has `Chunk` bytes.  The vector instructions are modelled
by the two nibble tables they look up; the scalar build sweeps every position,
which is the case of a chunk longer than the text.  Which words a pattern
matches is a table (`Regex`), which addresses a network holds another.
Predicates read fields in the code's order and stop where it stops, so the memo
holds what the code would have resolved.  The generation of the scan advances with
every field scanned (`sigma_match.c` calls `sigma_teddy_scratch_next` before each),
so a needle is confirmed once per field; the comments at `sigma_teddy.h:31` and
`:118`, which say once per event, are out of date.  Where nothing is posted, or
something for no field in particular, every field is scanned for all needles
(`Sought`).

*SigmaMeaning* evaluates every selection a rule has, and its whole condition, on a
stack of booleans; the matcher evaluates a selection when a token needs it, on a
stack of cells, and stops where it may.  *SigmaSpec* reports the rules in scope that
hold, with scope and holding as operator parameters.  `Spec0 == INSTANCE SigmaSpec`
in `SigmaMatch` gives them the definitions of `SigmaMeaning` and maps `db`, `call`,
`fired` and `out` to themselves; the scratch is what the abstract specification
does not have.  The property `MatchesSpec` is `Spec0!Spec`.

## Runs

| Run | Shows | Bounds |
|-----|-------|--------|
| `window` | The ring is a queue of the newest events; an event inside the window is lost only when counted; stale entries are no older than the lag; exact for events in order; it implements `CorrQueue` | ring of 3, window 2, lag 2, time to 5, 5 events: overwrites, wraps around and prunes several at once |
| `engine` | The locking protocol, the group maps, single-flight and spaced sweeps, one evaluation per correlation and event | 2 workers with three calls in all (one starts the sweep interval, two can sweep), 2 correlations of different windows, 2 keys for 1 group, so that admission always evicts; time to 2 |
| `returns` | Every call returns | as `engine`, with two calls |
| `fires` | When two fires of a group may be less than a window apart; LRU order; the sweep against lit groups | 2 workers with four calls in all, 3 keys for 2 groups, time to 3, window 2 |
| `fires_late` | *violated*: a group fires twice within its window although the map is never full | 1 key |
| `scratch` | Percentile and median are exact for every evaluation that no evaluation of another correlation ran into | 2 workers on 2 correlations, each with percentile 0 (the default), 50 or 100; windows of up to 3 values out of 2 |
| `scratch_shared` | *violated*: two such correlations corrupt each other's result | 2 workers on 2 correlations, windows of 2 |
| `group` | Every type but percentile and median against the log of events and contributions | 3 or 4 events (5 for raw beaconing, one more than the ring holds), times past the window, slack 2, watermark buffer of 3, distinct set of 2 for 3 values, an order against the order of the base rules, 5 buckets for 7 seconds (of uneven length) with an epoch that comes back to slot 0, `CountMod` 8 |
| `group_overflow` | *violated*: a full watermark buffer replays out of order | buffer of 3 |
| `group_merge` | *violated*: event_count fires on matches further apart than its timespan | threshold 2, window 2 |
| `match` | The scratch leaks nothing from event to event; the scan and the candidates are exact; no rule that matches is pruned; results are those of `SigmaSpec` | 4 artifacts that load (version 5 with every index, version 4 with an unscoped posting, one without buckets, one with a needle posted nowhere) and 3 that do not, 7 events, out arrays of 2, chunks of 4 bytes, 5 hash chains (collisions occur), generations up to 2 (both counters wrap around) |
| `match_gates` | *violated*: an artifact the loader accepts makes the prefilter prune a rule that matches | 2 artifacts |

Deadlock is checked in all runs but the three of `CorrGroup`, where the bound on
the log stops the system.  In `CorrEngine` the bound on calls is reached in the
action `Finished`.

### The five violations

- `fires_late`: "stay lit for one window after firing" fails because
  `last_update` takes the timestamp of the worker that gets the lock last, which
  may be older than the one it replaces.  A sweep then takes a lit group for
  expired and drops it with its deadline; the re-created group fires again.
  `FiresSpaced` says that disorder of this kind, and eviction for room, are the
  only ways.
- `scratch_shared`: `pct_scratch` belongs to the engine, the lock to the
  correlation.  The header promises that different correlations may be evaluated
  in parallel.
- `group_overflow`: `wm_insert` makes room by copying the newest hit over the
  oldest one, which leaves the buffer unsorted.  `ReplayOrdered` says that replay
  is in event-time order as long as the buffer never overflows.
- `group_merge`: `merge_n` only grows.  The header describes `event_count` as so
  many matches within a timespan; a merged count stays in the sum for as long as
  the group lives.  `AggregateExact` and `TemporalExact` say that until a
  contribution leaves the window, the verdict is that of one engine that saw
  everything.
- `match_gates`: the loader rejects an atom for a clause the rule does not have,
  but not a clause without an atom, which has the same effect: the rule's mask is
  never complete.  The comments at the check promise that no accepted index
  prunes a rule that could match.  `sigma_db_serialize` and the reference
  compiler do not write such an artifact; a damaged one with a valid checksum, or
  another compiler's, would lose detections silently.

One limit is known and bounded, not a run of its own: `ev_prune` stops at the
first entry inside the window, so with late timestamps an older entry behind it
is still counted.  `StaleWithinLag`, proved, says by how much it may be off.

### Fairness

`EveryCallReturns` assumes weak fairness of each worker's step inside a call, and
nothing about calls being made.  The threads are the caller's and the operating
system schedules them; none of the engine's loops waits for anything but a lock.
Weak fairness is enough for the locks here because calls are bounded in the
instance: a lock that is needed is eventually left alone.  It says that no path
keeps a lock and that no wait is circular, not that a mutex is fair under an
endless load.

## Proofs

Every theorem is for all values of the constants, from the assumptions the modules
name; TLC evaluates those on every run.

### The window of a group

`CorrWindowProofs` proves the five invariants the `window` run checks and the
refinement:

- `WindowTypes`, `RingIsQueue`, `NoSilentLoss`, `StaleIsBounded`,
  `WindowIsExact`, all from `WindowInvariant`, `Spec => []WindowInv`;
- `WindowImplementsQueue`, `Spec => ImplementsQueue`: every step of the circular
  arrays is a step of `CorrQueue` or leaves its queue and its count alone.

Assumptions: `MaxEventsAssumption` (`group_new` turns a capacity of 0 into 1) and
`WindowAssumption` (types of the constants).

None of the invariants is inductive alone.  `WindowInv` adds to the type
invariant, the correspondence with the log and the account of losses: that the
newest timestamp bounds every logged one (`HighIsNewest`), that no event is
further behind an earlier one than the lag (`LogWithinLag`) and that the head is
inside the window of the last event (`HeadInWindow`).  Two pairs of lemmas carry
the argument: `PruneRing` and `StoreRing` (in `CorrRingProofs`) say what one
operation does to the circular arrays, without the modulo; `PruneStep` and
`StoreStep` lift that to the correspondence with the log.  Exactness and the bound
on stale entries follow from the invariant: the entries behind the head came after
it, so they are behind it by the lag at most.

The refinement maps the ring to the sequence of its live entries (`QueueOf`).
`StoreQueue` and `PruneQueue` say that on that sequence a store is an append that
drops the first entry of a full queue, and `ev_prune` the removal of the longest
stale front.  `QueueStep` combines them with the ring's types.

### The engine

`CorrEngineProofs` proves, for any number of workers, correlations, keys, rules,
events and calls and for any rid index, every safety property of the `engine`
run: `EngineTypeCorrect`, `MapsStayConsistent`, `LocksAreExact`,
`HeldGroupsStay`, `OneSweepAtATime`, `SweepsStaySpaced` and
`EachCorrelationOnce`.  The assumptions are `MaxGroupsAssumption` (0 becomes the
default) and `EngineAssumption` (`timespan_s > 0` by `rule_valid`, the rid index
holds correlations of the engine, an event has a rid, the sweep interval is not
0, and Free and NoKey are none of the workers and keys).

The argument goes in four layers, each inductive given the ones before it:

- `Control`: the types of everything but the maps, with `LockHeldExactlyInside`
  and `SweepSingleFlight`.  These two are inductive together with the types: who
  holds a mutex is read off the program counters.
- `Groups`: every map is well formed and consistent (`OkMap`), and
  `HeldGroupResident`.  Four steps write a map (a sweep's drop, an admission, a
  failed admission, a fire) and each does so from inside the correlation, so by
  `Control` the group another worker is at is in another map (`OneMapChanges`).
  What the step does to its own map is a lemma of its own:
  `TouchMap`, `DropMap`, `MakeRoomMap`, `InsertMap`, `WriteMap`.  `IsMap` alone
  is not inductive: that a removal leaves the count a natural number needs the
  count to be the length of the list, and that a removal shortens the list and
  takes the group out of it needs the list to have no duplicates.
- `Due`: a worker about to record its sweep found it due, and `lastSweep` has
  not moved since, because `sweep_lock` is its own.  `SweepsSpaced` follows.
- `Accounted`: what a call is to handle is what it has handled, what is left of
  the current rid and what is left of the later rids.  When nothing is left it
  has handled everything, which is `OncePerCorrelation`.

The same module proves the three action properties of the `fires` run,
`FiresStaySpaced`, `SweepsSpareLit` and `RecentGroupsSurvive`, for any number of
workers, correlations, keys and calls.  A step of `NextFires` is a step of the
engine (`FiresIsEngine`), so `Control` and `Groups` carry over.  `FiresInv` ties
the history to the maps: the group used last is at the end of its LRU list
(`Recency`), and, as long as timestamps came in order, a fire is `Remembered`: its
group is lit until a window after it, or was updated a window after it, or is gone
and a window has passed since.  Only in order: one update that sets `last_update`
back is enough for a sweep to forget the deadline, which is the violation
`fires_late` shows, so `InOrder` is conditional on the history flag `disorder`.

### The percentile

`CorrScratchProofs` proves, for any number of workers and correlations, whatever
their percentiles:

- `ScratchTypes` (`TypeOK`), from `TypeInv`: whoever is inside a correlation holds
  its lock and has a window that is not empty.
- `PercentileIsExact` (`PercentileExact`): an evaluation is exact unless a worker on
  another correlation wrote into the scratch during it.  Two workers on the same
  correlation keep apart by its lock (`OneAtATime`), so a writer leaves the others
  as they are or is counted among their intruders (`ProgressUnderWriter`).
  `ValueInv` follows a worker with no such intruder (`Alone`): the first cells are
  those of the window, all of them are a rearrangement of it, the one at the rank is
  the percentile.  The last step is a matter of counting: a sorted copy has, up to
  any value, as many entries as the original (`SortCounts`), and the entry at the
  rank has at least a rank's worth of entries up to it and less below it
  (`RankValue`).
- `OneCorrelationIsSafe`: with at most one percentile or median correlation in the
  engine, `ParallelEvaluationSafe`, the invariant that the run `scratch_shared`
  refutes for two.  There is no other correlation to intrude.

### One group

Everything about `CorrGroup` rests on `GroupAssumption` and the assumptions of the
modules it extends (capacities are not 0, `rule_valid`'s checks on spans, orders and
buckets).  Much of it is folds over sets and sequences.  `FoldProofs` proves that
a fold has a trace, one value per element visited (`FoldExists`, `FoldTrace`), by
induction over the naturals (`SetInduction`, from a least counterexample); each
operator then has a lemma that says what it returns.

`CorrTemporalProofs` proves five invariants and one action property of the
`group` run: `SeenIsSound`, `TemporalIsExact`, `OrderIsSound`,
`PendingIsWithinSlack`, `ReplayIsOrdered`, `SequencesAreDisjoint`, from
`InvariantsHold`.  Its parts have to be proved together, since the flush moves what
one part describes into the domain of another:

- `Types`: the tables and buffers are what they should be.
- `TemporalInv`: an observation in the seen table is one the log has, inside the
  window, and for events in order and room for all base rules it is the latest
  one; `merge_seen` is what contributions brought.
- `OrderInv`: the progress is `Traced`: the steps done so far were brought by
  events of the log, in order, the first of them at the anchor's time; every hit
  in the buffer is one the log has.  When the last step comes, `Traced` becomes
  `Completes`, the witness that `OrderedSound` asks for.
- `WatermarkInv`: what was replayed is at or before the watermark, what waits is
  behind it (`PendingWithinSlack`), and both are sorted until the buffer
  overflows.  The first two are why a later flush cannot replay anything earlier
  than what is already out.

`CorrGroupProofs` proves, of the same run:

- `DistinctIsExact`, for events in order.  The set lists the most recent values of
  the window (`TopOf`): an entry at the i-th place from the end has i - 1 values more recent
  than it.  Expiry drops a set closed downwards by recency (`DropTop`), a refresh
  moves one value to the end (`MoveToEnd`), admission at the cap drops the first
  (`Admit`).  Every entry bears the time of its value's last event (`Stamped`), so
  that in order expiry by timestamp and order by recency agree.
- `DistinctIsHeld`, for events in any order.  With late events the two disagree: a
  late value is the most recent one and the first to expire, from the middle of the
  list.  The set then `ListsHeld`: it has exactly the values of the events that stand
  (no later event brought the value again or had a window that starts after them)
  and that never had `MaxDistinct` younger ones standing with them.  An event lets
  some of those go, wherever they are (`DropAny`), adds itself, and leaves out what
  is past the cap (`TrimTop`, `OneMoreHeld`).  "Never had" cannot be "has not": a
  value evicted for a late one stays out when the late one expires.
- `AggregateIsExact`.  The ring `Tracks` the group's own events of the window while
  they fit, the accumulators are the sums of the contributions, the count modulo
  `CountMod` (`MergedIs`).  Sums over a set of log entries are treated through their
  additivity (`Sums`), so that the order in which the fold visits the set does not
  matter, and own and remote events add up to the events in the window.
- `GroupTypes`, `Spec => []TypeOK` for a group of any type.  `Types` says nothing
  about the ring, the histogram, the capacity of the distinct set and of the seen
  table and the width of the merged count: `Typed` does, field by field.  That the
  distinct set does not outgrow `MaxDistinct` on a refresh needs `Without` to be
  strictly shorter; that the seen table does not outgrow `MaxSeen` needs the admitted
  base rules to be the lowest ones (`AdmittedFit`).

`CorrGroupProofs` also proves both verdicts on beaconing, of the same run.

- `HistogramIsExact`: `BeaconInv` says that a slot holds the epoch of the last event
  that fell on it (`SlotIsLatest`), that the verdict was taken on the histogram as
  it is, and that some event is of the newest epoch, which `Max` needs.  From there
  (`ActiveAreEpochs`): two epochs on one slot are a whole window apart (`SameSlot`),
  so when no event is a whole window late, the last event on the slot of an epoch
  in the window is of that epoch.
- `GapsAreExact`: the raw ring is the end of the log (`Suffix`), and what is in the
  log before it has left the window or made place for `MaxEvents` newer events
  (`Covers`).  For events in order that is exactly `Recent`.

### The matcher

`SigmaMatchProofs` proves every property of the `match` run: its invariants and
the refinement of `SigmaSpec`.  The assumptions are `TeddyAssumption` (sizes are not
0), `ArtifactAssumption` (tables are arrays, a slice is two counters, needles are
bytes), `EventAssumption` (a field holds bytes), `RouteAssumption` (an event's buckets
fit in the array of `sigma_eval_run`, 16 for at most 10) and `NoDbAssumption`.

*The scan*, for every table of needles of two bytes or more and every text.
`PositionExact`: where a chunk is skipped no needle starts, and where it is not,
the needles on the chains that compare equal are exactly those that start there.
It rests on case folding giving back both cases of a first byte (`BothCases`), on
the chunk of a position holding it (`ChunkHolds`) and on equal folded bytes
hashing alike (`StartIsChained`).  `ProbeExact` adds the stamps, and `ConfirmExact`
follows the fold over the positions (`ScanTrace`): up to each position the list
holds, once each, the needles that start there or before.

*The scratch of the matcher.*  `NoStampAhead` and `MemoOfLastEvent`, the properties
`StampsBehind` and `MemoIsEvent`, from `MemoInv`, which adds that the arrays of the
scratch have the sizes of the loaded database's tables: without it a stamp could
be missing rather than old.

*Types.*  `MatcherTypes` (`TypeOK`) and `NoNeedleStampAhead`
(`NeedleStampsBehind`) from `MatchInv`, which adds that the database is one that
loaded, that the scan's scratch has a stamp for each of its needles, and that masks
hold clauses of their rules.  The last rests on the loader: `PostingsInMask` and
`WitnessesInMask` follow its checks through to what an event credits
(`CreditsInMask`).

*Needles and candidates.*  `NeedlesAreExact` (`NeedlesExact`) takes the fold over
the fields (`ScanExact`) to what the rules of the selected buckets ask for
(`ScannedAreNamed`).  `CandidatesAreExact` (`CandidatesExact`) goes on to masks and
verdicts: what is credited is what holds (`CreditsAreHolding`), with all stamps in
the past a rule's mask is this event's (`CandidatesOf`), and the list of the
buckets' rules is verified exactly where it may be (`RulesOfBuckets`,
`VerifyExact`).

*Verdicts.*  `VerdictIsMeaning`: `RuleMatch` (`rule_match`) returns true exactly for
a rule whose condition holds on the event, for every database that loads and is
`Grouped`.  Two walks are related to two definitions:

- `sel_match` goes through the predicates once, closing a group when the next one
  has another id.  `SelKnows` says what it knows after each: whether the groups
  closed so far all held and whether the open one does (`SelIsMeant`).  That is the
  selection's meaning only if no group comes back after it was closed, hence
  `Grouped`.
- the condition's stack holds cells, some of them selections not evaluated yet.
  `InStep` relates it, token by token, to the stack of booleans: the same depth, and
  each cell, when forced, the boolean at its place (`TokenInStep`).  The short cuts
  of `and` and `or` are why a cell need not be forced.  A malformed token drives
  `DepthAfter` below zero for good, and the walk fails at it: `CondIsMeant`.

Each fold has a trace lemma of its own (`SelTrace`, `RpnTrace`, `DepthTrace`,
`TruthTrace` and others), because the provers cannot instantiate a lemma that takes
an operator as a parameter.

*Scope.*  `BucketsAreScope`: the rules of the buckets `SelectBuckets` collects are
those of `InScope`.  The tokens are those of the routing fields (`RouteTokenIs`) and
the walk over them adds each bucket once and none is turned away (`SelectsKeyed`).
A lookup finds one bucket of a key, so two buckets with one key would hide each
other's rules: hence `DistinctKeys`.

*The refinement.*  `MatcherImplementsSpec` proves `Spec => MatchesSpec`: each of the
three branches of `sigma_eval_run`, and `sigma_eval_run_linear`, verifies a list of
rules without repetition that includes every rule in scope that holds, so that what
is counted and what is put into `out` is a `Report` of those (`HitsExact`,
`FinishReports`); loads map to loads, and changes of the prefilter to stutters
(`StepsOfSpec`).

`PruningIsSound` (`PruneIsSound`) says it of the candidates alone: no rule that the
prefilter leaves out holds.  It follows from `CandidatesExact` and `PreInv` (a
prefiltered call was on a database with an index).

*What is assumed of the databases.*  These theorems have hypotheses on the
databases that the loader does not check; together they are `AsPromised`.

- `Grouped`: predicates of one group are contiguous ("emitted grouped & contiguous
  by the builder; the matcher relies on that ordering", `sigma_match.h:86`).
- `DistinctKeys`: no two buckets have one key.
- `AllWide`: every needle has two bytes or more; `prefilter_candidates` says so where
  it skips shorter values ("a needle is at least 2 bytes"), and a needle of one byte
  is outside the model (see below).
- `PostedWhereNamed`: a needle is posted, for a rule, to a field that the rule's
  predicates name.  The narrowing of `build_bucket_fields` looks at the predicates
  only, so an artifact that posts elsewhere would have clauses that no event
  completes, with the effect that `match_gates` shows.
- `LiteralsNecessary`: if there is an index, an event a rule matches has an atom of
  each of the rule's clauses.  This is what the format asks of a compiler
  (`sigma_match.h`, at `sigma_litref_t`: the rule matches, hence every clause has one
  of its literals present), and what the prefilter rests on.

`NeedlesAreExact` needs `AllWide`, `CandidatesAreExact` `PostedWhereNamed` too,
`VerdictIsMeaning` `Grouped`, `PruningIsSound` `LiteralsNecessary` and the two before
it, `MatcherImplementsSpec` all.  TLC evaluates two assumptions of `MCSigmaMatch` on
the artifacts of the runs: `CompiledAsPromised`, that those that load (the `match`
run also has three that the loader rejects) keep all five, and `LostClauseIsLost`,
that the artifact of `match_gates` keeps all but the last.  So the hypotheses are
met, and the refuted run differs from the proved theorem by that one.

### What stays with TLC

- Liveness: `EveryCallReturns` (fairness and ENABLED).
- Percentile and median evaluated while another correlation is are not proved but
  refuted (`scratch_shared`).
- What a pattern, a number or a network match means: `Regex`, `ToInt` and
  `StrHolds` are used by the proofs as they stand, whatever they return.

## Order of work

The engine's shared structures came first (`CorrRing`, `CorrGroups`,
`CorrEngine`), then what one group decides (`CorrDistinct`, `CorrTemporal`,
`CorrMerge`, `CorrBeacon`, composed in `CorrGroup`), then the matcher from the
bottom up (`SigmaTeddy`, `SigmaRules`, `SigmaMeaning`, `SigmaLoad`, composed in
`SigmaMatch`).  What would come next: the event time parser against a reference calendar, the
validation of correlation artifacts, several engines that exchange
contributions through an owner, temporal rules over more base rules than mask
bits.

## Not modelled, and why

- Hash buckets and their growth (a function from keys to groups), string
  comparison of keys, wording of fire records, counters that no decision reads.
- The byte layout of artifacts: the checks of magic, version, sizes, checksum and
  string references are one verdict (`frame`).  Serialisation, the JSON of
  correlation artifacts and contributions, and the owner hash are conversions
  without state.
- Needles of one byte.  The loader accepts them and the table of short needles is
  keyed by two bytes, so what is hashed with them is the byte that follows in the
  string pool, which the model does not have.
- Failed allocation while loading or creating a scratch: the caller gets an error
  and no database.
- The rounding of doubles in sums, averages and variances.
- PCRE2, and the parsing of networks and addresses.
- The event time parser: civil-time arithmetic without state.  Timestamps are
  numbers in every module.
- The command line tool, tests, fuzzers, benchmarks and the reference compiler.
