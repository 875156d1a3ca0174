----------------------------- MODULE CorrEngine -----------------------------
(***************************************************************************)
(* The correlation engine under concurrent callers: corr_on_event_apply,   *)
(* corr_on_contribution and sweep_if_due of classify_corr.c, each split    *)
(* where another worker may come in between: at every lock, trylock and    *)
(* unlock.                                                                 *)
(*                                                                         *)
(* What a correlation's type computes from the events (CorrWindow,         *)
(* CorrGroup) is abstracted to a verdict that may be either.  The field    *)
(* callback is abstracted to the key it resolves to: each correlation is   *)
(* resolved at most once per event, so the choice is made at that step.    *)
(* out[], grp_scratch and the statistics are the caller's own storage or   *)
(* relaxed counters and are left out.                                      *)
(***************************************************************************)
EXTENDS CorrGroups, FiniteSets

CONSTANTS
  Workers,        \* the caller's threads
  Free,           \* the owner of an unlocked mutex
  NoKey,          \* the key of a worker that is at no group
  NCorrs,         \* n_states
  Timespan,       \* timespan_s of each correlation
  Rids,           \* base rule ids
  Watchers,       \* the rid index: which correlations watch a rid, in order
  Events,         \* the matched_rids an event may carry
  SweepInterval,  \* sweep_interval_s
  MaxLag,         \* how far behind the clock an event's timestamp may be
  MaxTime,        \* bound: the last timestamp
  MaxCalls        \* bound: calls in all

Corrs == 1 .. NCorrs
Time  == 0 .. MaxTime

ASSUME EngineAssumption ==
  /\ Free \notin Workers /\ NoKey \notin Keys
  /\ NCorrs \in Nat \ {0}
  /\ Timespan \in [Corrs -> Nat \ {0}]      \* rule_valid
  /\ Watchers \in [Rids -> Seq(Corrs)]
  /\ Events \subseteq Seq(Rids) \ {<<>>}    \* n_rids = 0 returns at once
  /\ SweepInterval \in Nat \ {0}
  /\ MaxLag \in Nat /\ MaxTime \in Nat /\ MaxCalls \in Nat

Never == -1   \* no timestamp

VARIABLES
  map,        \* the group map of each correlation
  lock,       \* st->lock: its owner
  sweepLock,  \* sweep_lock: its owner
  lastSweep,  \* last_sweep, Never until sweep_seen
  pc,         \* where each worker is
  ts,         \* the timestamp of its call
  rids,       \* matched_rids still to walk
  cands,      \* correlations watching the current rid still to walk
  visited,    \* visited[]
  cur,        \* the correlation it is at (or sweeps)
  key,        \* the group it is at
  clock,      \* the newest timestamp of any call
  calls,      \* calls begun, for the bound
  watched,    \* history: the correlations the call is to evaluate
  handled     \* history: those it evaluated or skipped, in order

engine == <<map, lock, sweepLock, lastSweep>>
walk   == <<rids, cands, visited, watched, handled>>
target == <<cur, key>>
call   == <<ts, clock, calls>>
vars   == <<engine, pc, walk, target, call>>

Init ==
  /\ map = [c \in Corrs |-> EmptyMap]
  /\ lock = [c \in Corrs |-> Free]
  /\ sweepLock = Free
  /\ lastSweep = Never
  /\ pc = [w \in Workers |-> "idle"]
  /\ ts = [w \in Workers |-> 0]
  /\ rids = [w \in Workers |-> <<>>]
  /\ cands = [w \in Workers |-> <<>>]
  /\ visited = [w \in Workers |-> {}]
  /\ cur = [w \in Workers |-> 1]
  /\ key = [w \in Workers |-> NoKey]
  /\ clock = 0
  /\ calls = 0
  /\ watched = [w \in Workers |-> {}]
  /\ handled = [w \in Workers |-> <<>>]

At(w, here)  == pc[w] = here
Goto(w, there) == pc' = [pc EXCEPT ![w] = there]

-----------------------------------------------------------------------------
\* The call.

Enter(w, t, todo, first) ==
  /\ At(w, "idle")
  /\ calls < MaxCalls
  /\ t >= clock - MaxLag
  /\ clock' = IF t > clock THEN t ELSE clock
  /\ calls' = calls + 1
  /\ ts' = [ts EXCEPT ![w] = t]
  /\ rids' = [rids EXCEPT ![w] = todo]
  /\ cands' = [cands EXCEPT ![w] = first]
  /\ Goto(w, "sweep")
  /\ UNCHANGED <<engine, visited, handled, target>>

WatchersOf(event) == UNION {ToSet(Watchers[event[i]]) : i \in DOMAIN event}

\* corr_on_event_apply, or a contribution that carries an event.
OnEvent(w) ==
  \E t \in Time, event \in Events :
    /\ Enter(w, t, event, <<>>)
    /\ watched' = [watched EXCEPT ![w] = WatchersOf(event)]

\* corr_on_contribution with a partial aggregate for one correlation, or for an
\* id the engine does not have.
OnContribution(w) ==
  \E t \in Time, first \in {<<>>} \cup {<<c>> : c \in Corrs} :
    /\ Enter(w, t, <<>>, first)
    /\ watched' = [watched EXCEPT ![w] = ToSet(first)]

\* The call ends: its locals are gone.
Leave(w) ==
  /\ Goto(w, "idle")
  /\ ts' = [ts EXCEPT ![w] = 0]
  /\ rids' = [rids EXCEPT ![w] = <<>>]
  /\ cands' = [cands EXCEPT ![w] = <<>>]
  /\ visited' = [visited EXCEPT ![w] = {}]
  /\ watched' = [watched EXCEPT ![w] = {}]
  /\ handled' = [handled EXCEPT ![w] = <<>>]
  /\ UNCHANGED <<engine, target, clock, calls>>

-----------------------------------------------------------------------------
\* sweep_if_due.

\* Another worker is in it: skip.
SweepBusy(w) ==
  /\ At(w, "sweep")
  /\ sweepLock # Free
  /\ Goto(w, "walk")
  /\ UNCHANGED <<engine, walk, target, call>>

\* Mutant of SweepTrylock: the lock is not tried.
SweepEnters(w) ==
  /\ At(w, "sweep")
  /\ sweepLock' = w
  /\ Goto(w, "due")
  /\ UNCHANGED <<map, lock, lastSweep, walk, target, call>>

SweepTrylock(w) ==
  /\ At(w, "sweep")
  /\ sweepLock = Free
  /\ sweepLock' = w
  /\ Goto(w, "due")
  /\ UNCHANGED <<map, lock, lastSweep, walk, target, call>>

\* The first call only starts the interval.
SweepFirst(w) ==
  /\ At(w, "due")
  /\ lastSweep = Never
  /\ lastSweep' = ts[w]
  /\ sweepLock' = Free
  /\ Goto(w, "walk")
  /\ UNCHANGED <<map, lock, walk, target, call>>

\* Mutant of SweepNotDue: the early return keeps sweep_lock.
SweepNotDueKeeps(w) ==
  /\ At(w, "due")
  /\ lastSweep # Never
  /\ ts[w] - lastSweep < SweepInterval
  /\ Goto(w, "walk")
  /\ UNCHANGED <<engine, walk, target, call>>

SweepNotDue(w) ==
  /\ At(w, "due")
  /\ lastSweep # Never
  /\ ts[w] - lastSweep < SweepInterval
  /\ sweepLock' = Free
  /\ Goto(w, "walk")
  /\ UNCHANGED <<map, lock, lastSweep, walk, target, call>>

SweepDue(w) ==
  /\ At(w, "due")
  /\ lastSweep # Never
  /\ ts[w] - lastSweep >= SweepInterval
  /\ Goto(w, "start")
  /\ UNCHANGED <<engine, walk, target, call>>

SweepStart(w) ==
  /\ At(w, "start")
  /\ lastSweep' = ts[w]
  /\ cur' = [cur EXCEPT ![w] = 1]
  /\ Goto(w, "sweepState")
  /\ UNCHANGED <<map, lock, sweepLock, walk, key, call>>

\* Mutant of SweepLock: the sweep does not take the correlation's lock.
SweepUnlocked(w) ==
  /\ At(w, "sweepState")
  /\ Goto(w, "drop")
  /\ UNCHANGED <<engine, walk, target, call>>

SweepLock(w) ==
  /\ At(w, "sweepState")
  /\ lock[cur[w]] = Free
  /\ lock' = [lock EXCEPT ![cur[w]] = w]
  /\ Goto(w, "drop")
  /\ UNCHANGED <<map, sweepLock, lastSweep, walk, target, call>>

\* Mutant of Horizon: the window length is left out.
HorizonNow(w) == ts[w]

\* A group not updated since is expired.
Horizon(w) == ts[w] - Timespan[cur[w]]

\* One turn of the loop of cstate_drop_expired.
SweepDrop(w) ==
  /\ At(w, "drop")
  /\ \E k \in Expired(map[cur[w]], Horizon(w)) :
       map' = [map EXCEPT ![cur[w]] = DropGroup(@, k)]
  /\ UNCHANGED <<lock, sweepLock, lastSweep, pc, walk, target, call>>

\* Mutant of MoreStates: off by one.
MoreStatesPast(w) == cur[w] <= NCorrs

MoreStates(w) == cur[w] < NCorrs

\* The state is done: on to the next one, or out of the sweep.
SweepNext(w) ==
  /\ At(w, "drop")
  /\ Expired(map[cur[w]], Horizon(w)) = {}
  /\ lock' = [lock EXCEPT ![cur[w]] = Free]
  /\ \/ /\ MoreStates(w)
        /\ cur' = [cur EXCEPT ![w] = @ + 1]
        /\ Goto(w, "sweepState")
        /\ UNCHANGED sweepLock
     \/ /\ ~MoreStates(w)
        /\ cur' = [cur EXCEPT ![w] = 1]
        /\ Goto(w, "walk")
        /\ sweepLock' = Free
  /\ UNCHANGED <<map, lastSweep, walk, key, call>>

-----------------------------------------------------------------------------
\* The walk over the correlations that watch the event.

\* visited cannot be allocated: the whole event is given up, before its first
\* correlation.  A contribution needs no visited.
WalkOom(w) ==
  /\ At(w, "walk")
  /\ visited[w] = {}
  /\ cands[w] = <<>>
  /\ rids[w] # <<>>
  /\ Leave(w)

NextRid(w) ==
  /\ At(w, "walk")
  /\ cands[w] = <<>>
  /\ rids[w] # <<>>
  /\ cands' = [cands EXCEPT ![w] = Watchers[Head(rids[w])]]
  /\ rids' = [rids EXCEPT ![w] = Tail(@)]
  /\ UNCHANGED <<engine, pc, visited, watched, handled, target, call>>

\* Another rid of the event has already brought this correlation up.
AlreadyVisited(w) ==
  /\ At(w, "walk")
  /\ cands[w] # <<>>
  /\ Head(cands[w]) \in visited[w]
  /\ cands' = [cands EXCEPT ![w] = Tail(@)]
  /\ UNCHANGED <<engine, pc, rids, visited, watched, handled, target, call>>

\* Mutant of Visit: a correlation two rids select is evaluated twice.
VisitAgain(w) ==
  /\ At(w, "walk")
  /\ cands[w] # <<>>
  /\ visited' = [visited EXCEPT ![w] = @ \cup {Head(cands[w])}]
  /\ cands' = [cands EXCEPT ![w] = Tail(@)]
  /\ handled' = [handled EXCEPT ![w] = Append(@, Head(cands[w]))]

\* The next correlation, its group key resolved to k.
Visit(w) ==
  /\ At(w, "walk")
  /\ cands[w] # <<>>
  /\ Head(cands[w]) \notin visited[w]
  /\ visited' = [visited EXCEPT ![w] = @ \cup {Head(cands[w])}]
  /\ cands' = [cands EXCEPT ![w] = Tail(@)]
  /\ handled' = [handled EXCEPT ![w] = Append(@, Head(cands[w]))]

\* A group-by field is missing, or apply says another instance owns the key.
SkipCorrelation(w) ==
  /\ Visit(w)
  /\ UNCHANGED <<engine, pc, rids, watched, target, call>>

Resolve(w) ==
  /\ Visit(w)
  /\ cur' = [cur EXCEPT ![w] = Head(cands[w])]
  /\ \E k \in Keys : key' = [key EXCEPT ![w] = k]
  /\ Goto(w, "lock")
  /\ UNCHANGED <<engine, rids, watched, call>>

Return(w) ==
  /\ At(w, "walk")
  /\ cands[w] = <<>>
  /\ rids[w] = <<>>
  /\ Leave(w)

-----------------------------------------------------------------------------
\* One correlation, under its lock.

Lock(w) ==
  /\ At(w, "lock")
  /\ lock[cur[w]] = Free
  /\ lock' = [lock EXCEPT ![cur[w]] = w]
  /\ Goto(w, "admit")
  /\ UNCHANGED <<map, sweepLock, lastSweep, walk, target, call>>

\* pthread_mutex_unlock, on to the next correlation.
Unlock(w) ==
  /\ lock' = [lock EXCEPT ![cur[w]] = Free]
  /\ cur' = [cur EXCEPT ![w] = 1]
  /\ key' = [key EXCEPT ![w] = NoKey]
  /\ Goto(w, "walk")

\* cstate_get_or_create, and last_update.
Admit(w) ==
  /\ At(w, "admit")
  /\ map' = [map EXCEPT ![cur[w]] =
               [GetOrCreate(@, key[w]) EXCEPT !.tab[key[w]].last = ts[w]]]
  /\ Goto(w, "eval")
  /\ UNCHANGED <<lock, sweepLock, lastSweep, walk, target, call>>

\* Mutant of AdmitOom: the early return keeps the correlation's lock.
AdmitOomKeeps(w) ==
  /\ At(w, "admit")
  /\ key[w] \notin Resident(map[cur[w]])
  /\ map' = [map EXCEPT ![cur[w]] = MakeRoom(@)]
  /\ cur' = [cur EXCEPT ![w] = 1]
  /\ key' = [key EXCEPT ![w] = NoKey]
  /\ Goto(w, "walk")
  /\ UNCHANGED <<lock, sweepLock, lastSweep, walk, call>>

\* group_new fails, after the room was made.
AdmitOom(w) ==
  /\ At(w, "admit")
  /\ key[w] \notin Resident(map[cur[w]])
  /\ map' = [map EXCEPT ![cur[w]] = MakeRoom(@)]
  /\ Unlock(w)
  /\ UNCHANGED <<sweepLock, lastSweep, walk, call>>

\* Mutant of NoFire: the lock is kept when nothing fires.
NoFireKeeps(w) ==
  /\ At(w, "eval")
  /\ cur' = [cur EXCEPT ![w] = 1]
  /\ key' = [key EXCEPT ![w] = NoKey]
  /\ Goto(w, "walk")
  /\ UNCHANGED <<engine, walk, call>>

\* The condition does not hold.
NoFire(w) ==
  /\ At(w, "eval")
  /\ Unlock(w)
  /\ UNCHANGED <<map, sweepLock, lastSweep, walk, call>>

FiredUntil(w) == map[cur[w]].tab[key[w]].lit

\* The condition holds, within one window of the last fire.
Suppress(w) ==
  /\ At(w, "eval")
  /\ ts[w] < FiredUntil(w)
  /\ Unlock(w)
  /\ UNCHANGED <<map, sweepLock, lastSweep, walk, call>>

\* Mutant of Fire: lit until now, not for a window.
FireUnlit(w) ==
  /\ At(w, "eval")
  /\ ts[w] >= FiredUntil(w)
  /\ map' = [map EXCEPT ![cur[w]].tab[key[w]].lit = ts[w]]
  /\ Unlock(w)
  /\ UNCHANGED <<sweepLock, lastSweep, walk, call>>

Fire(w) ==
  /\ At(w, "eval")
  /\ ts[w] >= FiredUntil(w)
  /\ map' = [map EXCEPT ![cur[w]].tab[key[w]].lit = ts[w] + Timespan[cur[w]]]
  /\ Unlock(w)
  /\ UNCHANGED <<sweepLock, lastSweep, walk, call>>

-----------------------------------------------------------------------------
Sweep(w) ==
  \/ SweepBusy(w) \/ SweepTrylock(w) \/ SweepFirst(w) \/ SweepNotDue(w)
  \/ SweepDue(w) \/ SweepStart(w) \/ SweepLock(w) \/ SweepDrop(w) \/ SweepNext(w)

Walk(w) ==
  \/ WalkOom(w) \/ NextRid(w) \/ AlreadyVisited(w)
  \/ SkipCorrelation(w) \/ Resolve(w) \/ Return(w)

Evaluate(w) ==
  \/ Lock(w) \/ Admit(w) \/ AdmitOom(w)
  \/ NoFire(w) \/ Suppress(w) \/ Fire(w)

Step(w) == Sweep(w) \/ Walk(w) \/ Evaluate(w)

\* The bound on the calls is reached and every call has returned.
Finished ==
  /\ calls = MaxCalls
  /\ \A w \in Workers : At(w, "idle")
  /\ UNCHANGED vars

Next ==
  \/ \E w \in Workers : OnEvent(w) \/ OnContribution(w) \/ Step(w)
  \/ Finished

\* A worker inside a call keeps running; nothing makes it call.
Fairness == \A w \in Workers : WF_vars(Step(w))

Spec == Init /\ [][Next]_vars /\ Fairness

-----------------------------------------------------------------------------
\* The types of the variables; a key is at hand exactly while it is used.
TypeOK ==
  /\ DOMAIN map = Corrs /\ \A c \in Corrs : IsMap(map[c])
  /\ lock \in [Corrs -> Workers \cup {Free}]
  /\ sweepLock \in Workers \cup {Free}
  /\ lastSweep \in Time \cup {Never}
  /\ pc \in [Workers -> {"idle", "sweep", "due", "start", "sweepState", "drop",
                         "walk", "lock", "admit", "eval"}]
  /\ ts \in [Workers -> Time]
  /\ rids \in [Workers -> Seq(Rids)]
  /\ cands \in [Workers -> Seq(Corrs)]
  /\ visited \in [Workers -> SUBSET Corrs]
  /\ cur \in [Workers -> Corrs]
  /\ key \in [Workers -> Keys \cup {NoKey}]
  /\ \A w \in Workers : key[w] \in Keys <=> pc[w] \in {"lock", "admit", "eval"}
  /\ clock \in Time
  /\ calls \in 0 .. MaxCalls

\* The hash table, the LRU list and the count of every correlation agree and
\* stay within max_groups, under every interleaving of admission, eviction,
\* failed allocation and sweep.
MapsConsistent == \A c \in Corrs : MapConsistent(map[c])

\* Who may touch correlation c's groups.
Inside(w, c) == pc[w] \in {"drop", "admit", "eval"} /\ cur[w] = c

\* A correlation's lock is held by exactly the worker inside its groups: no two
\* workers are, and no early return (allocation failure, no fire, suppressed)
\* leaves it locked.
LockHeldExactlyInside ==
  \A c \in Corrs, w \in Workers : lock[c] = w <=> Inside(w, c)

\* The group a worker got from cstate_get_or_create stays resident until it has
\* read and written its last field of it: no eviction or sweep frees it.
HeldGroupResident ==
  \A w \in Workers : At(w, "eval") => key[w] \in Resident(map[cur[w]])

\* One sweep at a time, and sweep_lock is released on every path out.
SweepSingleFlight ==
  \A w \in Workers :
    sweepLock = w <=> pc[w] \in {"due", "start", "sweepState", "drop"}

\* Two sweeps are at least sweep_interval_s apart, whichever workers start
\* them: the test and the update of last_sweep are not separated.
SweepsSpaced ==
  [][lastSweep' # lastSweep =>
       lastSweep = Never \/ lastSweep' >= lastSweep + SweepInterval]_vars

\* An event is handled at most once by each correlation that watches it, by
\* no other, and by all of them when its call returns: several rids selecting
\* one correlation do not count it twice.
OncePerCorrelation ==
  \A w \in Workers :
    /\ IsInjective(handled[w])
    /\ ToSet(handled[w]) \subseteq watched[w]
    /\ At(w, "walk") /\ cands[w] = <<>> /\ rids[w] = <<>>
         => ToSet(handled[w]) = watched[w]

\* Every call returns: no lock is lost, and no wait is circular (a sweep waits
\* for a correlation's lock while it holds sweep_lock, for which nobody waits).
EveryCallReturns ==
  \A w \in Workers : ~At(w, "idle") ~> At(w, "idle")

=============================================================================
