----------------------------- MODULE CorrFires ------------------------------
(***************************************************************************)
(* CorrEngine with the history of its fires: what re-fire suppression,     *)
(* LRU eviction and the sweep together let a caller see.  The history      *)
(* variables follow the engine and restrict none of its actions.           *)
(***************************************************************************)
EXTENDS CorrEngine

VARIABLES
  fired,     \* timestamp of the last fire of each group
  evicted,   \* that group was evicted for room since
  touched,   \* the group of each correlation that was used last
  newest,    \* the newest timestamp to sweep or to update a group
  disorder   \* a group was updated with a timestamp behind newest

history == <<fired, evicted, touched, newest, disorder>>

InitFires ==
  /\ Init
  /\ fired = [c \in Corrs |-> [k \in Keys |-> Never]]
  /\ evicted = [c \in Corrs |-> [k \in Keys |-> FALSE]]
  /\ touched = [c \in Corrs |-> NoKey]
  /\ newest = 0
  /\ disorder = FALSE

NoteTime(w) == newest' = IF ts[w] > newest THEN ts[w] ELSE newest

\* The groups of c that are gone after the step.
Gone(c) == Resident(map[c]) \ Resident(map'[c])

NoteEvictions(c) ==
  evicted' = [evicted EXCEPT ![c] = [k \in Keys |-> @[k] \/ k \in Gone(c)]]

SweepStarts(w) ==
  /\ SweepStart(w)
  /\ NoteTime(w)
  /\ UNCHANGED <<fired, evicted, touched, disorder>>

Admits(w) ==
  /\ Admit(w)
  /\ NoteTime(w)
  /\ NoteEvictions(cur[w])
  /\ touched' = [touched EXCEPT ![cur[w]] = key[w]]
  /\ disorder' = (disorder \/ ts[w] < newest)
  /\ UNCHANGED fired

AdmitFails(w) ==
  /\ AdmitOom(w)
  /\ NoteEvictions(cur[w])
  /\ UNCHANGED <<fired, touched, newest, disorder>>

Fires(w) ==
  /\ Fire(w)
  /\ fired' = [fired EXCEPT ![cur[w]][key[w]] = ts[w]]
  /\ evicted' = [evicted EXCEPT ![cur[w]][key[w]] = FALSE]
  /\ UNCHANGED <<touched, newest, disorder>>

Elsewhere(w) ==
  \/ OnEvent(w) \/ OnContribution(w)
  \/ SweepBusy(w) \/ SweepTrylock(w) \/ SweepFirst(w) \/ SweepNotDue(w)
  \/ SweepDue(w) \/ SweepLock(w) \/ SweepDrop(w) \/ SweepNext(w)
  \/ Walk(w) \/ Lock(w) \/ NoFire(w) \/ Suppress(w)

NextFires ==
  \/ \E w \in Workers :
       \/ SweepStarts(w) \/ Admits(w) \/ AdmitFails(w) \/ Fires(w)
       \/ Elsewhere(w) /\ UNCHANGED history
  \/ Finished /\ UNCHANGED history

SpecFires == InitFires /\ [][NextFires]_<<vars, history>>

-----------------------------------------------------------------------------
\* The last fire of the group worker w is at.
LastFire(w) == fired[cur[w]][key[w]]

\* Re-fire suppression across eviction, sweep and re-creation of groups: two
\* fires of one group are a window apart, unless in between the group was evicted
\* for room, or some group was updated out of timestamp order.
FiresSpaced ==
  [][\A w \in Workers :
       Fire(w) /\ LastFire(w) # Never =>
         \/ ts[w] >= LastFire(w) + Timespan[cur[w]]
         \/ evicted[cur[w]][key[w]]
         \/ disorder]_<<vars, history>>

\* The group of a correlation that was used last leaves only when it expires:
\* with two groups this is least-recently-used eviction.
RecentGroupSurvives ==
  [][\A c \in Corrs :
       touched[c] \in Gone(c) =>
         MaxGroups = 1 \/ \E w \in Workers : Inside(w, c) /\ At(w, "drop")
    ]_<<vars, history>>

\* A sweep forgets a group only after its whole window, and so never while it is
\* lit, as long as updates come in timestamp order.
SweepSparesLit ==
  [][\A w \in Workers :
       SweepDrop(w) /\ ~disorder =>
         \A k \in Gone(cur[w]) : map[cur[w]].tab[k].lit < ts[w]]_<<vars, history>>

\* "Re-fire suppression: stay lit for one window after firing"
\* (classify_corr.c): a group fires again only when the newest call is a window
\* past its last fire, when the map has room for every group.
StaysLit ==
  [][\A w \in Workers :
       Fire(w) /\ LastFire(w) # Never =>
         clock >= LastFire(w) + Timespan[cur[w]]]_<<vars, history>>
=============================================================================
