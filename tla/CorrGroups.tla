----------------------------- MODULE CorrGroups -----------------------------
(***************************************************************************)
(* The group map of one correlation: corr_state_t of classify_corr.c.      *)
(*                                                                         *)
(* Three structures have to agree: the hash table (tab, a function whose   *)
(* domain is the set of resident keys), the LRU list (lru, least recently  *)
(* used first) and the counter the capacity is tested on (count).  Hash    *)
(* buckets and their growth are abstracted to tab.                         *)
(*                                                                         *)
(* Operators only; CorrEngine puts one map behind each correlation's lock. *)
(***************************************************************************)
EXTENDS Integers, Sequences, SequencesExt, Functions

CONSTANT
  Keys,       \* the group-by value tuples
  MaxGroups   \* max_groups; corr_engine_new turns 0 into the default

ASSUME MaxGroupsAssumption == MaxGroups \in Nat \ {0}

\* The part of a group the engine itself reads: last_update and fired_until.
Group == [last : Nat, lit : Nat]

\* calloc leaves both at zero.
NewGroup == [last |-> 0, lit |-> 0]

EmptyMap == [tab |-> [k \in {} |-> NewGroup], lru |-> <<>>, count |-> 0]

Resident(m) == DOMAIN m.tab

IsMap(m) ==
  /\ m = [tab |-> m.tab, lru |-> m.lru, count |-> m.count]
  /\ m.tab \in [Resident(m) -> Group] /\ Resident(m) \subseteq Keys
  /\ m.lru \in Seq(Keys)
  /\ m.count \in Nat

\* cstate_unlink_lru: take k out of the list, wherever it is.
Unlink(list, k) == RemoveAt(list, CHOOSE i \in DOMAIN list : list[i] = k)

\* Mutant of Touch: a hit does not refresh the group's recency.
TouchNot(m, k) == m

\* A hit: the group becomes the most recently used.
Touch(m, k) == [m EXCEPT !.lru = Append(Unlink(@, k), k)]

\* cstate_remove: out of the bucket chain, the LRU list and the count.
DropGroup(m, k) ==
  [tab   |-> Restrict(m.tab, Resident(m) \ {k}),
   lru   |-> Unlink(m.lru, k),
   count |-> m.count - 1]

\* Mutant of MakeRoom: room is made one group too late.
MakeRoomLate(m) ==
  IF m.count > MaxGroups /\ m.lru # <<>> THEN DropGroup(m, Head(m.lru)) ELSE m

\* Room for a new group: the LRU one goes when the map is at capacity.
MakeRoom(m) ==
  IF m.count >= MaxGroups /\ m.lru # <<>> THEN DropGroup(m, Head(m.lru)) ELSE m

Insert(m, k) ==
  [tab   |-> [j \in Resident(m) \cup {k} |->
                IF j = k THEN NewGroup ELSE m.tab[j]],
   lru   |-> Append(m.lru, k),
   count |-> m.count + 1]

\* cstate_get_or_create.  The room is made before group_new is called, so an
\* allocation that fails has already cost the LRU group its place.
GetOrCreate(m, k) ==
  IF k \in Resident(m) THEN Touch(m, k) ELSE Insert(MakeRoom(m), k)

\* The groups cstate_drop_expired removes.
Expired(m, horizon) == {k \in Resident(m) : m.tab[k].last < horizon}

\* The table, the list and the count are three views of the same groups.
MapConsistent(m) ==
  /\ IsInjective(m.lru)
  /\ Range(m.lru) = Resident(m)
  /\ m.count = Len(m.lru)
  /\ m.count <= MaxGroups
=============================================================================
