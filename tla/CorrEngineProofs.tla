-------------------------- MODULE CorrEngineProofs --------------------------
(***************************************************************************)
(* The safety of CorrEngine for any number of workers, correlations, keys, *)
(* rules and calls.  What the operations of CorrGroups do to a group map   *)
(* comes first; GetOrCreateMap is the whole operation.                     *)
(*                                                                         *)
(* Then four invariants, each resting on the ones before it:               *)
(*   Control    who holds which lock is read off the program counters;     *)
(*   Groups     the maps agree and a group in use is resident;             *)
(*   Due        a worker about to record a sweep found it due;             *)
(*   Accounted  what a call has handled, and what is left of it, add up.   *)
(*                                                                         *)
(* Last, the three action properties of CorrFires: what a caller sees of   *)
(* re-fire suppression, eviction and the sweep.                            *)
(***************************************************************************)
EXTENDS CorrFires, SequenceTheorems, TLAPS

-----------------------------------------------------------------------------
(***************************************************************************)
(* The group map: the table, the LRU list and the count stay in agreement  *)
(* and within max_groups.                                                  *)
(***************************************************************************)

\* cstate_unlink_lru, position by position.
LEMMA RemoveAtValue ==
  ASSUME NEW S, NEW s \in Seq(S), NEW i \in 1 .. Len(s)
  PROVE  /\ RemoveAt(s, i) \in Seq(S)
         /\ Len(RemoveAt(s, i)) = Len(s) - 1
         /\ \A j \in 1 .. Len(s) - 1 :
              RemoveAt(s, i)[j] = IF j < i THEN s[j] ELSE s[j + 1]
<1> DEFINE a == SubSeq(s, 1, i - 1)
           b == SubSeq(s, i + 1, Len(s))
<1>1. /\ a \in Seq(S) /\ Len(a) = i - 1
      /\ \A j \in 1 .. i - 1 : a[j] = s[j]
  OBVIOUS
<1>2. /\ b \in Seq(S) /\ Len(b) = Len(s) - i
      /\ \A j \in 1 .. Len(s) - i : b[j] = s[i + j]
  BY SubSeqProperties
<1>3. RemoveAt(s, i) = a \o b
  BY DEF RemoveAt
<1> HIDE DEF a, b
<1>4. /\ a \o b \in Seq(S)
      /\ Len(a \o b) = Len(a) + Len(b)
      /\ \A j \in 1 .. Len(a) + Len(b) :
           (a \o b)[j] = IF j <= Len(a) THEN a[j] ELSE b[j - Len(a)]
  BY <1>1, <1>2, ConcatProperties
<1>5. ASSUME NEW j \in 1 .. Len(s) - 1
      PROVE  (a \o b)[j] = IF j < i THEN s[j] ELSE s[j + 1]
  <2>1. CASE j < i
    BY <1>1, <1>2, <1>4, <2>1
  <2>2. CASE j >= i
    <3>1. (a \o b)[j] = b[j - (i - 1)]
      BY <1>1, <1>2, <1>4, <2>2
    <3>2. j - (i - 1) \in 1 .. Len(s) - i
      BY <2>2
    <3>3. b[j - (i - 1)] = s[i + (j - (i - 1))]
      BY <1>2, <3>2
    <3>4. i + (j - (i - 1)) = j + 1
      OBVIOUS
    <3>5. QED
      BY <2>2, <3>1, <3>3, <3>4
  <2>3. j < i \/ j >= i
    OBVIOUS
  <2>4. QED
    BY ONLY <2>1, <2>2, <2>3
<1>6. QED
  BY <1>1, <1>2, <1>3, <1>4, <1>5

\* Removing one occurrence from a list without duplicates removes the element.
LEMMA UnlinkValue ==
  ASSUME NEW list \in Seq(Keys), IsInjective(list), NEW k \in Range(list)
  PROVE  /\ Unlink(list, k) \in Seq(Keys)
         /\ IsInjective(Unlink(list, k))
         /\ Range(Unlink(list, k)) = Range(list) \ {k}
         /\ Len(Unlink(list, k)) = Len(list) - 1
<1> DEFINE i == CHOOSE x \in DOMAIN list : list[x] = k
           u == Unlink(list, k)
           n == Len(list)
<1>1. i \in 1 .. n /\ list[i] = k
  BY DEF Range
<1>2. u = RemoveAt(list, i)
  BY DEF Unlink
<1> HIDE DEF i, u
<1>3. /\ u \in Seq(Keys)
      /\ Len(u) = n - 1
      /\ \A j \in 1 .. n - 1 : u[j] = IF j < i THEN list[j] ELSE list[j + 1]
  BY <1>1, <1>2, RemoveAtValue
<1>4. \A x, y \in 1 .. n : list[x] = list[y] => x = y
  BY DEF IsInjective
<1>5. n \in Nat /\ DOMAIN list = 1 .. n /\ DOMAIN u = 1 .. n - 1
  BY <1>3
<1>6. IsInjective(u)
  <2>1. ASSUME NEW x \in 1 .. n - 1, NEW y \in 1 .. n - 1, u[x] = u[y]
        PROVE  x = y
    <3> DEFINE p == IF x < i THEN x ELSE x + 1
               q == IF y < i THEN y ELSE y + 1
    <3>1. p \in 1 .. n /\ q \in 1 .. n
      BY <1>1, <1>5
    <3>2. u[x] = list[p] /\ u[y] = list[q]
      BY <1>3
    <3>3. p = q
      BY <1>4, <2>1, <3>1, <3>2
    <3>4. QED
      BY <1>1, <1>5, <3>3
  <2>2. QED
    BY <1>5, <2>1 DEF IsInjective
<1>7. Range(u) = Range(list) \ {k}
  <2>1. ASSUME NEW x \in 1 .. n - 1
        PROVE  u[x] \in Range(list) \ {k}
    <3> DEFINE p == IF x < i THEN x ELSE x + 1
    <3>1. p \in 1 .. n /\ p # i
      BY <1>1, <1>5
    <3>2. u[x] = list[p]
      BY <1>3
    <3>3. list[p] # k
      BY <1>1, <1>4, <3>1
    <3>4. QED
      BY <1>5, <3>1, <3>2, <3>3 DEF Range
  <2>2. ASSUME NEW x \in 1 .. n, list[x] # k
        PROVE  list[x] \in Range(u)
    <3> DEFINE p == IF x < i THEN x ELSE x - 1
    <3>1. x # i
      BY <1>1, <2>2
    <3>2. p \in 1 .. n - 1
      BY <1>1, <1>5, <3>1
    <3>3. u[p] = list[x]
      BY <1>1, <1>3, <1>5, <3>1, <3>2
    <3>4. QED
      BY <1>5, <3>2, <3>3 DEF Range
  <2>3. QED
    BY <1>5, <2>1, <2>2 DEF Range
<1>8. QED
  BY <1>3, <1>6, <1>7 DEF u

\* Appending a new element.
LEMMA AppendValue ==
  ASSUME NEW S, NEW list \in Seq(S), IsInjective(list),
         NEW k \in S, k \notin Range(list)
  PROVE  /\ Append(list, k) \in Seq(S)
         /\ IsInjective(Append(list, k))
         /\ Range(Append(list, k)) = Range(list) \cup {k}
         /\ Len(Append(list, k)) = Len(list) + 1
<1> DEFINE n == Len(list)
           a == Append(list, k)
<1>1. /\ a \in Seq(S) /\ Len(a) = n + 1 /\ n \in Nat
      /\ \A j \in 1 .. n : a[j] = list[j]
      /\ a[n + 1] = k
  OBVIOUS
<1>2. DOMAIN list = 1 .. n /\ DOMAIN a = 1 .. n + 1
  BY <1>1
<1> HIDE DEF a
<1>3. \A x \in 1 .. n : list[x] # k
  BY <1>2 DEF Range
<1>4. IsInjective(a)
  <2>1. ASSUME NEW x \in 1 .. n + 1, NEW y \in 1 .. n + 1, a[x] = a[y]
        PROVE  x = y
    <3>1. CASE x \in 1 .. n /\ y \in 1 .. n
      BY <1>1, <1>2, <2>1, <3>1 DEF IsInjective
    <3>2. CASE x = n + 1 \/ y = n + 1
      BY <1>1, <1>3, <2>1, <3>2
    <3>3. QED
      BY <1>1, <3>1, <3>2
  <2>2. QED
    BY <1>2, <2>1 DEF IsInjective
<1>5. Range(a) = Range(list) \cup {k}
  <2>1. ASSUME NEW x \in 1 .. n + 1
        PROVE  a[x] \in Range(list) \cup {k}
    BY <1>1, <1>2 DEF Range
  <2>2. ASSUME NEW x \in 1 .. n
        PROVE  list[x] \in Range(a)
    BY <1>1, <1>2 DEF Range
  <2>3. k \in Range(a)
    BY <1>1, <1>2 DEF Range
  <2>4. QED
    BY <1>2, <2>1, <2>2, <2>3 DEF Range
<1>6. QED
  BY <1>1, <1>4, <1>5 DEF a

-----------------------------------------------------------------------------
\* What every operation keeps: the three structures are well formed and agree.
OkMap(m) == IsMap(m) /\ MapConsistent(m)

\* The list of a map that is OK holds exactly its residents, each once.
LEMMA OkMapFacts ==
  ASSUME NEW m, OkMap(m)
  PROVE  /\ m = [tab |-> m.tab, lru |-> m.lru, count |-> m.count]
         /\ m.tab \in [Resident(m) -> Group] /\ Resident(m) \subseteq Keys
         /\ m.lru \in Seq(Keys) /\ IsInjective(m.lru)
         /\ Range(m.lru) = Resident(m)
         /\ m.count = Len(m.lru) /\ m.count \in Nat /\ m.count <= MaxGroups
BY DEF OkMap, IsMap, MapConsistent

\* A map is OK when its three parts are.
LEMMA MakeOkMap ==
  ASSUME NEW m, NEW R, NEW t, NEW l,
         m = [tab |-> t, lru |-> l, count |-> Len(l)],
         R \subseteq Keys, t \in [R -> Group],
         l \in Seq(Keys), IsInjective(l), Range(l) = R,
         Len(l) <= MaxGroups
  PROVE  OkMap(m) /\ Resident(m) = R
<1>1. Len(l) \in Nat /\ DOMAIN t = R
  OBVIOUS
<1>2. m.tab = t /\ m.lru = l /\ m.count = Len(l)
  OBVIOUS
<1>3. QED
  BY <1>1, <1>2 DEF OkMap, IsMap, MapConsistent, Resident

\* A hit moves the group to the end of the list and nothing else.
LEMMA TouchMap ==
  ASSUME NEW m, OkMap(m), NEW k \in Resident(m)
  PROVE  OkMap(Touch(m, k)) /\ Resident(Touch(m, k)) = Resident(m)
<1> DEFINE u == Unlink(m.lru, k)
           a == Append(u, k)
<1>1. /\ m = [tab |-> m.tab, lru |-> m.lru, count |-> m.count]
      /\ m.tab \in [Resident(m) -> Group] /\ Resident(m) \subseteq Keys
      /\ m.lru \in Seq(Keys) /\ IsInjective(m.lru)
      /\ Range(m.lru) = Resident(m)
      /\ m.count = Len(m.lru) /\ m.count \in Nat /\ m.count <= MaxGroups
  BY OkMapFacts
<1>2. /\ u \in Seq(Keys) /\ IsInjective(u)
      /\ Range(u) = Resident(m) \ {k} /\ Len(u) = m.count - 1
  BY <1>1, UnlinkValue
<1>3. Touch(m, k) = [m EXCEPT !.lru = a]
  BY DEF Touch
<1> HIDE DEF u
<1>4. /\ a \in Seq(Keys) /\ IsInjective(a)
      /\ Range(a) = (Resident(m) \ {k}) \cup {k} /\ Len(a) = m.count - 1 + 1
  BY <1>1, <1>2, AppendValue
<1> HIDE DEF a
<1>5. Range(a) = Resident(m) /\ Len(a) = m.count
  BY <1>1, <1>4
<1>6. [m EXCEPT !.lru = a] = [tab |-> m.tab, lru |-> a, count |-> m.count]
  BY <1>1
<1>7. Touch(m, k) = [tab |-> m.tab, lru |-> a, count |-> Len(a)]
  BY <1>3, <1>5, <1>6
<1>8. QED
  BY <1>1, <1>4, <1>5, <1>7, MakeOkMap

\* Removing a resident group takes it out of all three.
LEMMA DropMap ==
  ASSUME NEW m, OkMap(m), NEW k \in Resident(m)
  PROVE  /\ OkMap(DropGroup(m, k))
         /\ Resident(DropGroup(m, k)) = Resident(m) \ {k}
         /\ DropGroup(m, k).count = m.count - 1
<1> DEFINE u == Unlink(m.lru, k)
           R == Resident(m) \ {k}
           t == Restrict(m.tab, R)
<1>1. /\ m.tab \in [Resident(m) -> Group] /\ Resident(m) \subseteq Keys
      /\ m.lru \in Seq(Keys) /\ IsInjective(m.lru)
      /\ Range(m.lru) = Resident(m)
      /\ m.count = Len(m.lru) /\ m.count \in Nat /\ m.count <= MaxGroups
  BY OkMapFacts
<1>2. /\ u \in Seq(Keys) /\ IsInjective(u)
      /\ Range(u) = R /\ Len(u) = m.count - 1
  BY <1>1, UnlinkValue
<1>3. t \in [R -> Group] /\ R \subseteq Keys
  BY <1>1 DEF Restrict
<1>4. DropGroup(m, k) = [tab |-> t, lru |-> u, count |-> Len(u)]
  BY <1>2 DEF DropGroup
<1> DEFINE d == DropGroup(m, k)
<1> HIDE DEF u, R, t, d
<1>5. Len(u) <= MaxGroups
  BY <1>1, <1>2, MaxGroupsAssumption
<1>6. d = [tab |-> t, lru |-> u, count |-> Len(u)]
  BY <1>4 DEF d
<1>7. OkMap(d) /\ Resident(d) = R
  BY <1>2, <1>3, <1>5, <1>6, MakeOkMap
<1>8. d.count = m.count - 1
  BY <1>2, <1>6
<1>9. QED
  BY <1>7, <1>8 DEF d, R

\* Making room leaves fewer than max_groups groups, whatever was there.
LEMMA MakeRoomMap ==
  ASSUME NEW m, OkMap(m)
  PROVE  /\ OkMap(MakeRoom(m))
         /\ Resident(MakeRoom(m)) \subseteq Resident(m)
         /\ MakeRoom(m).count < MaxGroups
<1>1. /\ m.lru \in Seq(Keys) /\ Range(m.lru) = Resident(m)
      /\ m.count = Len(m.lru) /\ m.count \in Nat /\ m.count <= MaxGroups
  BY OkMapFacts
<1>2. CASE m.count >= MaxGroups /\ m.lru # <<>>
  <2>1. Head(m.lru) = m.lru[1] /\ 1 \in DOMAIN m.lru
    BY <1>1, <1>2, EmptySeq
  <2>2. Head(m.lru) \in Resident(m)
    BY <1>1, <2>1 DEF Range
  <2>3. MakeRoom(m) = DropGroup(m, Head(m.lru))
    BY <1>2 DEF MakeRoom
  <2>4. m.count - 1 < MaxGroups
    BY <1>1, MaxGroupsAssumption
  <2>5. QED
    BY <2>2, <2>3, <2>4, DropMap
<1>3. CASE ~(m.count >= MaxGroups /\ m.lru # <<>>)
  <2>1. MakeRoom(m) = m
    BY <1>3 DEF MakeRoom
  <2>2. m.lru = <<>> => m.count = 0
    BY <1>1
  <2>3. m.count < MaxGroups
    BY <1>1, <1>3, <2>2, MaxGroupsAssumption
  <2>4. QED
    BY <2>1, <2>3
<1>4. QED
  BY <1>2, <1>3

\* A new group goes into all three, while there is room.
LEMMA InsertMap ==
  ASSUME NEW m, OkMap(m), NEW k \in Keys, k \notin Resident(m),
         m.count < MaxGroups
  PROVE  OkMap(Insert(m, k)) /\ Resident(Insert(m, k)) = Resident(m) \cup {k}
<1> DEFINE R == Resident(m) \cup {k}
           t == [j \in R |-> IF j = k THEN NewGroup ELSE m.tab[j]]
           a == Append(m.lru, k)
<1>1. /\ m.tab \in [Resident(m) -> Group] /\ Resident(m) \subseteq Keys
      /\ m.lru \in Seq(Keys) /\ IsInjective(m.lru)
      /\ Range(m.lru) = Resident(m)
      /\ m.count = Len(m.lru) /\ m.count \in Nat
  BY OkMapFacts
<1>2. /\ a \in Seq(Keys) /\ IsInjective(a)
      /\ Range(a) = R /\ Len(a) = m.count + 1
  BY <1>1, AppendValue
<1>3. NewGroup \in Group
  BY DEF NewGroup, Group
<1>4. t \in [R -> Group] /\ R \subseteq Keys
  BY <1>1, <1>3
<1>5. Insert(m, k) = [tab |-> t, lru |-> a, count |-> Len(a)]
  BY <1>2 DEF Insert
<1> DEFINE n == Insert(m, k)
<1> HIDE DEF R, t, a, n
<1>6. Len(a) <= MaxGroups
  BY <1>1, <1>2, MaxGroupsAssumption
<1>7. n = [tab |-> t, lru |-> a, count |-> Len(a)]
  BY <1>5 DEF n
<1>8. OkMap(n) /\ Resident(n) = R
  BY <1>2, <1>4, <1>6, <1>7, MakeOkMap
<1>9. QED
  BY <1>8 DEF n, R

\* cstate_get_or_create: whatever it evicts, the group asked for is resident
\* afterwards and the structures agree.
THEOREM GetOrCreateMap ==
  ASSUME NEW m, OkMap(m), NEW k \in Keys
  PROVE  OkMap(GetOrCreate(m, k)) /\ k \in Resident(GetOrCreate(m, k))
<1>1. CASE k \in Resident(m)
  BY <1>1, TouchMap DEF GetOrCreate
<1>2. CASE k \notin Resident(m)
  <2>1. /\ OkMap(MakeRoom(m)) /\ MakeRoom(m).count < MaxGroups
        /\ k \notin Resident(MakeRoom(m))
    BY <1>2, MakeRoomMap
  <2>2. GetOrCreate(m, k) = Insert(MakeRoom(m), k)
    BY <1>2 DEF GetOrCreate
  <2>3. QED
    BY <2>1, <2>2, InsertMap
<1>3. QED
  BY <1>1, <1>2

\* Writing a resident group changes none of the three structures.
LEMMA WriteMap ==
  ASSUME NEW m, OkMap(m), NEW k \in Resident(m), NEW g \in Group
  PROVE  /\ OkMap([m EXCEPT !.tab[k] = g])
         /\ Resident([m EXCEPT !.tab[k] = g]) = Resident(m)
<1> DEFINE t == [m.tab EXCEPT ![k] = g]
<1>1. /\ m = [tab |-> m.tab, lru |-> m.lru, count |-> m.count]
      /\ m.tab \in [Resident(m) -> Group] /\ Resident(m) \subseteq Keys
      /\ m.lru \in Seq(Keys) /\ IsInjective(m.lru)
      /\ Range(m.lru) = Resident(m)
      /\ m.count = Len(m.lru) /\ m.count <= MaxGroups
  BY OkMapFacts
<1>2. t \in [Resident(m) -> Group]
  BY <1>1
<1>3. [m EXCEPT !.tab[k] = g] = [tab |-> t, lru |-> m.lru, count |-> Len(m.lru)]
  BY <1>1
<1> DEFINE w == [m EXCEPT !.tab[k] = g]
<1>4. w = [tab |-> t, lru |-> m.lru, count |-> Len(m.lru)]
  BY <1>3
<1> HIDE DEF t, w
<1>5. Len(m.lru) <= MaxGroups
  BY <1>1
<1>6. OkMap(w) /\ Resident(w) = Resident(m)
  BY <1>1, <1>2, <1>4, <1>5, MakeOkMap
<1>7. QED
  BY <1>6 DEF w

\* grp->last_update = now.
LEMMA WriteLastMap ==
  ASSUME NEW m, OkMap(m), NEW k \in Resident(m), NEW v \in Nat
  PROVE  /\ OkMap([m EXCEPT !.tab[k].last = v])
         /\ Resident([m EXCEPT !.tab[k].last = v]) = Resident(m)
<1> DEFINE g == [m.tab[k] EXCEPT !.last = v]
<1>1. m.tab[k] \in Group
  BY OkMapFacts
<1>2. g \in Group
  BY <1>1 DEF Group
<1>3. [m EXCEPT !.tab[k].last = v] = [m EXCEPT !.tab[k] = g]
  OBVIOUS
<1> HIDE DEF g
<1>4. QED
  BY <1>2, <1>3, WriteMap

\* grp->fired_until = now + timespan.
LEMMA WriteLitMap ==
  ASSUME NEW m, OkMap(m), NEW k \in Resident(m), NEW v \in Nat
  PROVE  /\ OkMap([m EXCEPT !.tab[k].lit = v])
         /\ Resident([m EXCEPT !.tab[k].lit = v]) = Resident(m)
<1> DEFINE g == [m.tab[k] EXCEPT !.lit = v]
<1>1. m.tab[k] \in Group
  BY OkMapFacts
<1>2. g \in Group
  BY <1>1 DEF Group
<1>3. [m EXCEPT !.tab[k].lit = v] = [m EXCEPT !.tab[k] = g]
  OBVIOUS
<1> HIDE DEF g
<1>4. QED
  BY <1>2, <1>3, WriteMap

\* calloc: an empty map is OK.
LEMMA EmptyMapOk == OkMap(EmptyMap) /\ Resident(EmptyMap) = {}
<1>1. /\ EmptyMap.tab \in [{} -> Group] /\ EmptyMap.lru = <<>>
      /\ EmptyMap.count = 0 /\ DOMAIN EmptyMap.tab = {}
  BY DEF EmptyMap
<1>2. IsInjective(EmptyMap.lru) /\ Range(EmptyMap.lru) = {}
  BY <1>1 DEF IsInjective, Range
<1>3. QED
  BY <1>1, <1>2, MaxGroupsAssumption DEF OkMap, IsMap, MapConsistent, Resident, EmptyMap
-----------------------------------------------------------------------------
\* What the operations leave in the table and at the end of the list.

\* k is the most recently used of the list.
EndsIn(list, k) == list # <<>> /\ list[Len(list)] = k

\* Taking another element out leaves the end of the list where it is.
LEMMA UnlinkKeepsEnd ==
  ASSUME NEW list \in Seq(Keys), IsInjective(list), NEW k \in Range(list),
         NEW e, EndsIn(list, e), e # k
  PROVE  EndsIn(Unlink(list, k), e)
<1> DEFINE i == CHOOSE x \in DOMAIN list : list[x] = k
           n == Len(list)
           u == RemoveAt(list, i)
<1>1. i \in 1 .. n /\ list[i] = k /\ n \in Nat
  BY DEF Range
<1>2. n \in 1 .. n /\ i # n
  BY <1>1 DEF EndsIn
<1>3. Unlink(list, k) = u
  BY DEF Unlink
<1> HIDE DEF i
<1>4. /\ Len(u) = n - 1
      /\ \A j \in 1 .. n - 1 : u[j] = IF j < i THEN list[j] ELSE list[j + 1]
      /\ u \in Seq(Keys)
  BY <1>1, RemoveAtValue
<1>5. n - 1 \in 1 .. n - 1 /\ ~(n - 1 < i) /\ (n - 1) + 1 = n
  BY <1>1, <1>2
<1> HIDE DEF u, n
<1>6. u[n - 1] = list[n]
  BY <1>4, <1>5
<1>7. u # <<>>
  BY <1>4, <1>5
<1>8. QED
  BY <1>3, <1>4, <1>6, <1>7 DEF EndsIn, n

\* An appended element is the end of the list.
LEMMA AppendEnds ==
  ASSUME NEW S, NEW list \in Seq(S), NEW k \in S
  PROVE  EndsIn(Append(list, k), k)
BY DEF EndsIn

\* cstate_remove leaves the other groups as they are.
LEMMA DropValue ==
  ASSUME NEW m, OkMap(m), NEW k \in Resident(m)
  PROVE  /\ \A j \in Resident(m) \ {k} : DropGroup(m, k).tab[j] = m.tab[j]
         /\ \A e : EndsIn(m.lru, e) /\ e # k => EndsIn(DropGroup(m, k).lru, e)
<1>1. /\ DropGroup(m, k).lru = Unlink(m.lru, k)
      /\ DropGroup(m, k).tab = Restrict(m.tab, Resident(m) \ {k})
  BY DEF DropGroup
<1>2. m.lru \in Seq(Keys) /\ IsInjective(m.lru) /\ Range(m.lru) = Resident(m)
  BY OkMapFacts
<1>3. QED
  BY <1>1, <1>2, UnlinkKeepsEnd DEF Restrict

\* Making room removes the least recently used group of a full map, if any.
LEMMA MakeRoomValue ==
  ASSUME NEW m, OkMap(m)
  PROVE  \/ MakeRoom(m) = m
         \/ /\ m.count >= MaxGroups /\ m.lru # <<>>
            /\ Head(m.lru) \in Resident(m)
            /\ MakeRoom(m) = DropGroup(m, Head(m.lru))
<1>1. m.lru \in Seq(Keys) /\ Range(m.lru) = Resident(m)
  BY OkMapFacts
<1>2. CASE m.count >= MaxGroups /\ m.lru # <<>>
  <2>1. Head(m.lru) = m.lru[1] /\ 1 \in DOMAIN m.lru
    BY <1>1, <1>2, EmptySeq
  <2>2. Head(m.lru) \in Resident(m)
    BY <1>1, <2>1 DEF Range
  <2>3. QED
    BY <1>2, <2>2 DEF MakeRoom
<1>3. CASE ~(m.count >= MaxGroups /\ m.lru # <<>>)
  BY <1>3 DEF MakeRoom
<1>4. QED
  BY <1>2, <1>3

\* Eviction takes the group used last only when there is no other.
LEMMA MakeRoomSparesEnd ==
  ASSUME NEW m, OkMap(m), NEW e \in Resident(m), EndsIn(m.lru, e),
         e \notin Resident(MakeRoom(m))
  PROVE  MaxGroups = 1
<1>1. /\ m.lru \in Seq(Keys) /\ IsInjective(m.lru)
      /\ m.count = Len(m.lru) /\ m.count <= MaxGroups /\ m.count \in Nat
  BY OkMapFacts
<1>2. /\ m.count >= MaxGroups /\ m.lru # <<>>
      /\ Head(m.lru) \in Resident(m)
      /\ MakeRoom(m) = DropGroup(m, Head(m.lru))
  BY MakeRoomValue
<1>3. e = Head(m.lru)
  BY <1>2, DropMap
<1>4. /\ 1 \in DOMAIN m.lru /\ Len(m.lru) \in DOMAIN m.lru
      /\ m.lru[1] = e /\ m.lru[Len(m.lru)] = e
  BY <1>1, <1>2, <1>3, EmptySeq DEF EndsIn
<1>5. \A x, y \in DOMAIN m.lru : m.lru[x] = m.lru[y] => x = y
  BY <1>1 DEF IsInjective
<1>6. Len(m.lru) = 1
  BY <1>4, <1>5
<1>7. QED
  BY <1>1, <1>2, <1>6, MaxGroupsAssumption

\* What making room leaves is as it was.
LEMMA MakeRoomKeeps ==
  ASSUME NEW m, OkMap(m)
  PROVE  /\ \A j \in Resident(MakeRoom(m)) :
              j \in Resident(m) /\ MakeRoom(m).tab[j] = m.tab[j]
         /\ \A e \in Resident(MakeRoom(m)) :
              EndsIn(m.lru, e) => EndsIn(MakeRoom(m).lru, e)
<1>1. CASE MakeRoom(m) = m
  BY <1>1
<1>2. CASE MakeRoom(m) # m
  <2> DEFINE k == Head(m.lru)
  <2>1. k \in Resident(m) /\ MakeRoom(m) = DropGroup(m, k)
    BY <1>2, MakeRoomValue
  <2> HIDE DEF k
  <2>2. Resident(MakeRoom(m)) = Resident(m) \ {k}
    BY <2>1, DropMap
  <2>3. QED
    BY <2>1, <2>2, DropValue
<1>3. QED
  BY <1>1, <1>2

\* cstate_get_or_create: the group asked for ends the list, as it was or as
\* calloc makes it; of the others, those making room leaves are as they were.
LEMMA GetOrCreateValue ==
  ASSUME NEW m, OkMap(m), NEW k \in Keys,
         NEW g, g = GetOrCreate(m, k),
         NEW kept, kept = IF k \in Resident(m) THEN m ELSE MakeRoom(m)
  PROVE  /\ Resident(g) = Resident(kept) \cup {k}
         /\ g.tab[k] = IF k \in Resident(m) THEN m.tab[k] ELSE NewGroup
         /\ \A j \in Resident(g) \ {k} :
              j \in Resident(m) /\ g.tab[j] = m.tab[j]
         /\ EndsIn(g.lru, k)
<1>1. /\ m.lru \in Seq(Keys) /\ IsInjective(m.lru) /\ Range(m.lru) = Resident(m)
      /\ m = [tab |-> m.tab, lru |-> m.lru, count |-> m.count]
  BY OkMapFacts
<1>2. CASE k \in Resident(m)
  <2>1. g = Touch(m, k)
    BY <1>2 DEF GetOrCreate
  <2>2. g.tab = m.tab /\ g.lru = Append(Unlink(m.lru, k), k)
    BY <1>1, <2>1 DEF Touch
  <2>3. Unlink(m.lru, k) \in Seq(Keys)
    BY <1>1, <1>2, UnlinkValue
  <2>4. EndsIn(g.lru, k)
    BY <2>2, <2>3, AppendEnds
  <2>5. Resident(g) = Resident(m) /\ kept = m
    BY <1>2, <2>2 DEF Resident
  <2>6. QED
    BY <1>2, <2>2, <2>4, <2>5
<1>3. CASE k \notin Resident(m)
  <2> DEFINE r == MakeRoom(m)
  <2>1. g = Insert(r, k)
    BY <1>3 DEF GetOrCreate
  <2>2. /\ OkMap(r)
        /\ \A j \in Resident(r) : j \in Resident(m) /\ r.tab[j] = m.tab[j]
    BY MakeRoomMap, MakeRoomKeeps
  <2>3. r.lru \in Seq(Keys)
    BY <2>2, OkMapFacts
  <2> HIDE DEF r
  <2>4. /\ g.tab = [j \in Resident(r) \cup {k} |->
                      IF j = k THEN NewGroup ELSE r.tab[j]]
        /\ g.lru = Append(r.lru, k)
    BY <2>1 DEF Insert
  <2>5. EndsIn(g.lru, k)
    BY <2>3, <2>4, AppendEnds
  <2>6. Resident(g) = Resident(r) \cup {k} /\ kept = r
    BY <1>3, <2>4 DEF Resident, r
  <2>7. g.tab[k] = NewGroup /\ \A j \in Resident(g) \ {k} : g.tab[j] = r.tab[j]
    BY <2>4, <2>6
  <2>8. QED
    BY <1>3, <2>2, <2>5, <2>6, <2>7
<1>4. QED
  BY <1>2, <1>3

\* grp->last_update = now, and nothing else.
LEMMA WriteLastValue ==
  ASSUME NEW m, OkMap(m), NEW k \in Resident(m), NEW v \in Nat,
         NEW r, r = [m EXCEPT !.tab[k].last = v]
  PROVE  /\ r.lru = m.lru
         /\ r.tab[k].last = v /\ r.tab[k].lit = m.tab[k].lit
         /\ \A j \in Resident(m) \ {k} : r.tab[j] = m.tab[j]
<1>1. /\ m = [tab |-> m.tab, lru |-> m.lru, count |-> m.count]
      /\ m.tab \in [Resident(m) -> Group]
  BY OkMapFacts
<1>2. r.lru = m.lru /\ r.tab = [m.tab EXCEPT ![k].last = v]
  BY <1>1
<1>3. m.tab[k] \in Group
  BY <1>1
<1>4. r.tab[k] = [m.tab[k] EXCEPT !.last = v]
  BY <1>1, <1>2
<1>5. QED
  BY <1>1, <1>2, <1>3, <1>4 DEF Group

\* grp->fired_until = now + timespan, and nothing else.
LEMMA WriteLitValue ==
  ASSUME NEW m, OkMap(m), NEW k \in Resident(m), NEW v \in Nat,
         NEW r, r = [m EXCEPT !.tab[k].lit = v]
  PROVE  /\ r.lru = m.lru
         /\ r.tab[k].lit = v /\ r.tab[k].last = m.tab[k].last
         /\ \A j \in Resident(m) \ {k} : r.tab[j] = m.tab[j]
<1>1. /\ m = [tab |-> m.tab, lru |-> m.lru, count |-> m.count]
      /\ m.tab \in [Resident(m) -> Group]
  BY OkMapFacts
<1>2. r.lru = m.lru /\ r.tab = [m.tab EXCEPT ![k].lit = v]
  BY <1>1
<1>3. m.tab[k] \in Group
  BY <1>1
<1>4. r.tab[k] = [m.tab[k] EXCEPT !.lit = v]
  BY <1>1, <1>2
<1>5. QED
  BY <1>1, <1>2, <1>3, <1>4 DEF Group

\* An admission: cstate_get_or_create, and last_update.
Admitted(m, k, v) == [GetOrCreate(m, k) EXCEPT !.tab[k].last = v]

\* What an admission does to a map.
LEMMA AdmitValue ==
  ASSUME NEW m, OkMap(m), NEW k \in Keys, NEW v \in Nat,
         NEW r, r = Admitted(m, k, v)
  PROVE  /\ OkMap(r)
         /\ Resident(r) =
              (IF k \in Resident(m) THEN Resident(m) ELSE Resident(MakeRoom(m)))
                \cup {k}
         /\ r.tab[k].last = v
         /\ r.tab[k].lit = IF k \in Resident(m) THEN m.tab[k].lit ELSE 0
         /\ \A j \in Resident(r) \ {k} : j \in Resident(m) /\ r.tab[j] = m.tab[j]
         /\ EndsIn(r.lru, k)
<1> DEFINE g == GetOrCreate(m, k)
           kept == IF k \in Resident(m) THEN m ELSE MakeRoom(m)
<1>1. OkMap(g) /\ k \in Resident(g)
  BY GetOrCreateMap
<1>2. /\ Resident(g) = Resident(kept) \cup {k}
      /\ g.tab[k] = IF k \in Resident(m) THEN m.tab[k] ELSE NewGroup
      /\ \A j \in Resident(g) \ {k} : j \in Resident(m) /\ g.tab[j] = m.tab[j]
      /\ EndsIn(g.lru, k)
  BY GetOrCreateValue
<1>3. Resident(kept) = IF k \in Resident(m) THEN Resident(m) ELSE Resident(MakeRoom(m))
  OBVIOUS
<1> HIDE DEF g, kept
<1>4. r = [g EXCEPT !.tab[k].last = v]
  BY DEF g, Admitted
<1>5. OkMap([g EXCEPT !.tab[k].last = v])
      /\ Resident([g EXCEPT !.tab[k].last = v]) = Resident(g)
  BY <1>1, WriteLastMap
<1>6. OkMap(r) /\ Resident(r) = Resident(g)
  BY <1>4, <1>5
<1>7. /\ r.lru = g.lru
      /\ r.tab[k].last = v /\ r.tab[k].lit = g.tab[k].lit
      /\ \A j \in Resident(g) \ {k} : r.tab[j] = g.tab[j]
  <2>1. ASSUME NEW q, q = [g EXCEPT !.tab[k].last = v]
        PROVE  /\ q.lru = g.lru
               /\ q.tab[k].last = v /\ q.tab[k].lit = g.tab[k].lit
               /\ \A j \in Resident(g) \ {k} : q.tab[j] = g.tab[j]
    BY ONLY <1>1, <2>1, v \in Nat, WriteLastValue
  <2>2. QED
    BY <1>4, <2>1
<1>8. NewGroup.lit = 0
  BY DEF NewGroup
<1>9. QED
  BY <1>2, <1>3, <1>6, <1>7, <1>8

-----------------------------------------------------------------------------
(***************************************************************************)
(* The engine.                                                             *)
(***************************************************************************)

\* The types of everything but the maps.
ControlTypes ==
  /\ lock \in [Corrs -> Workers \cup {Free}]
  /\ sweepLock \in Workers \cup {Free}
  /\ lastSweep \in Time \cup {Never}
  /\ pc \in [Workers -> {"idle", "sweep", "due", "start", "sweepState", "drop",
                         "walk", "lock", "admit", "eval"}]
  /\ ts \in [Workers -> Time]
  /\ rids \in [Workers -> Seq(Rids)]
  /\ cands \in [Workers -> Seq(Corrs)]
  /\ visited \in [Workers -> SUBSET Corrs]
  /\ cur \in [Workers -> Corrs]
  /\ key \in [Workers -> Keys \cup {NoKey}]
  /\ \A w \in Workers : key[w] \in Keys <=> pc[w] \in {"lock", "admit", "eval"}
  /\ clock \in Time
  /\ calls \in 0 .. MaxCalls

Control == ControlTypes /\ LockHeldExactlyInside /\ SweepSingleFlight

\* Every mutex starts free and every worker outside.
LEMMA ControlInit == Init => Control
<1> SUFFICES ASSUME Init PROVE Control
  OBVIOUS
<1>1. 0 \in Time /\ 1 \in Corrs /\ 0 \in 0 .. MaxCalls
  BY EngineAssumption DEF Time, Corrs
<1>2. ControlTypes
  BY <1>1, EngineAssumption DEF Init, ControlTypes
<1>3. LockHeldExactlyInside /\ SweepSingleFlight
  BY EngineAssumption DEF Init, LockHeldExactlyInside, SweepSingleFlight, Inside
<1>4. QED
  BY <1>2, <1>3 DEF Control

\* Every step takes a free lock, gives up its own, or leaves the locks alone.
LEMMA ControlNext == Control /\ [Next]_vars => Control'
<1> SUFFICES ASSUME Control, [Next]_vars PROVE Control'
  OBVIOUS
<1> USE DEF At, Goto, engine, walk, target, call
<1>1. /\ ControlTypes /\ LockHeldExactlyInside /\ SweepSingleFlight
      /\ Free \notin Workers /\ NoKey \notin Keys
      /\ 1 \in Corrs /\ 0 \in Time
  BY EngineAssumption DEF Control, Corrs, Time
<1>2. ASSUME NEW w \in Workers, SweepBusy(w) PROVE Control'
  <2>1. ControlTypes'
    BY <1>1, <1>2 DEF SweepBusy, ControlTypes
  <2>2. LockHeldExactlyInside' /\ SweepSingleFlight'
    BY <1>1, <1>2
       DEF SweepBusy, ControlTypes, LockHeldExactlyInside, SweepSingleFlight,
           Inside
  <2>3. QED
    BY <2>1, <2>2 DEF Control
<1>3. ASSUME NEW w \in Workers, SweepTrylock(w) PROVE Control'
  <2>1. ControlTypes'
    BY <1>1, <1>3 DEF SweepTrylock, ControlTypes
  <2>2. LockHeldExactlyInside' /\ SweepSingleFlight'
    BY <1>1, <1>3
       DEF SweepTrylock, ControlTypes, LockHeldExactlyInside, SweepSingleFlight,
           Inside
  <2>3. QED
    BY <2>1, <2>2 DEF Control
<1>4. ASSUME NEW w \in Workers, SweepNext(w) PROVE Control'
  <2>1. 1 \in Corrs /\ (MoreStates(w) => cur[w] + 1 \in Corrs)
    BY <1>1, EngineAssumption DEF ControlTypes, MoreStates, Corrs
  <2>2. \/ /\ cur' = [cur EXCEPT ![w] = cur[w] + 1]
           /\ MoreStates(w)
           /\ pc' = [pc EXCEPT ![w] = "sweepState"]
           /\ sweepLock' = sweepLock
        \/ /\ cur' = [cur EXCEPT ![w] = 1]
           /\ pc' = [pc EXCEPT ![w] = "walk"]
           /\ sweepLock' = Free
    BY <1>4 DEF SweepNext
  <2>3. /\ lock' = [lock EXCEPT ![cur[w]] = Free]
        /\ pc[w] = "drop"
        /\ UNCHANGED <<map, lastSweep, walk, key, call>>
    BY <1>4 DEF SweepNext
  <2>4. cur' \in [Workers -> Corrs]
    BY <1>1, <2>1, <2>2 DEF ControlTypes
  <2>5. ControlTypes'
    BY <1>1, <2>2, <2>3, <2>4 DEF ControlTypes
  <2>6. LockHeldExactlyInside'
    <3>1. lock[cur[w]] = w
      BY <1>1, <2>3 DEF ControlTypes, LockHeldExactlyInside, Inside
    <3>2. /\ pc'[w] \in {"sweepState", "walk"}
          /\ \A v \in Workers \ {w} : pc'[v] = pc[v] /\ cur'[v] = cur[v]
      BY <1>1, <2>2 DEF ControlTypes
    <3>3. \A c \in Corrs : lock'[c] = IF c = cur[w] THEN Free ELSE lock[c]
      BY <1>1, <2>3 DEF ControlTypes
    <3>4. ASSUME NEW c \in Corrs, NEW v \in Workers
          PROVE  lock'[c] = v <=> (pc'[v] \in {"drop", "admit", "eval"} /\ cur'[v] = c)
      <4>1. lock[c] = v <=> (pc[v] \in {"drop", "admit", "eval"} /\ cur[v] = c)
        BY <1>1 DEF LockHeldExactlyInside, Inside
      <4>2. lock[c] = w <=> (pc[w] \in {"drop", "admit", "eval"} /\ cur[w] = c)
        BY <1>1 DEF LockHeldExactlyInside, Inside
      <4>3. QED
        BY <1>1, <2>3, <3>1, <3>2, <3>3, <4>1, <4>2
    <3>5. QED
      BY <3>4 DEF LockHeldExactlyInside, Inside
  <2>7. SweepSingleFlight'
    BY <1>1, <2>2, <2>3 DEF ControlTypes, SweepSingleFlight
  <2>8. QED
    BY <2>5, <2>6, <2>7 DEF Control
<1>5. ASSUME NEW w \in Workers, Lock(w) PROVE Control'
  <2>1. ControlTypes'
    BY <1>1, <1>5 DEF Lock, ControlTypes
  <2>2. LockHeldExactlyInside' /\ SweepSingleFlight'
    BY <1>1, <1>5 DEF Lock, ControlTypes, LockHeldExactlyInside, SweepSingleFlight, Inside
  <2>3. QED
    BY <2>1, <2>2 DEF Control
<1>6. ASSUME NEW w \in Workers, SweepFirst(w) PROVE Control'
  <2>1. ControlTypes'
    BY <1>1, <1>6 DEF SweepFirst, ControlTypes
  <2>2. LockHeldExactlyInside' /\ SweepSingleFlight'
    BY <1>1, <1>6
       DEF SweepFirst, ControlTypes, LockHeldExactlyInside, SweepSingleFlight,
           Inside
  <2>3. QED
    BY <2>1, <2>2 DEF Control
<1>7. ASSUME NEW w \in Workers, SweepNotDue(w) PROVE Control'
  <2>1. ControlTypes'
    BY <1>1, <1>7 DEF SweepNotDue, ControlTypes
  <2>2. LockHeldExactlyInside' /\ SweepSingleFlight'
    BY <1>1, <1>7
       DEF SweepNotDue, ControlTypes, LockHeldExactlyInside, SweepSingleFlight,
           Inside
  <2>3. QED
    BY <2>1, <2>2 DEF Control
<1>8. ASSUME NEW w \in Workers, SweepDue(w) PROVE Control'
  <2>1. ControlTypes'
    BY <1>1, <1>8 DEF SweepDue, ControlTypes
  <2>2. LockHeldExactlyInside' /\ SweepSingleFlight'
    BY <1>1, <1>8
       DEF SweepDue, ControlTypes, LockHeldExactlyInside, SweepSingleFlight,
           Inside
  <2>3. QED
    BY <2>1, <2>2 DEF Control
<1>9. ASSUME NEW w \in Workers, SweepStart(w) PROVE Control'
  <2>1. ControlTypes'
    BY <1>1, <1>9 DEF SweepStart, ControlTypes
  <2>2. LockHeldExactlyInside' /\ SweepSingleFlight'
    BY <1>1, <1>9
       DEF SweepStart, ControlTypes, LockHeldExactlyInside, SweepSingleFlight,
           Inside
  <2>3. QED
    BY <2>1, <2>2 DEF Control
<1>10. ASSUME NEW w \in Workers, SweepLock(w) PROVE Control'
  <2>1. ControlTypes'
    BY <1>1, <1>10 DEF SweepLock, ControlTypes
  <2>2. LockHeldExactlyInside' /\ SweepSingleFlight'
    BY <1>1, <1>10
       DEF SweepLock, ControlTypes, LockHeldExactlyInside, SweepSingleFlight,
           Inside
  <2>3. QED
    BY <2>1, <2>2 DEF Control
<1>11. ASSUME NEW w \in Workers, SweepDrop(w) PROVE Control'
  <2>1. ControlTypes'
    BY <1>1, <1>11 DEF SweepDrop, ControlTypes
  <2>2. LockHeldExactlyInside' /\ SweepSingleFlight'
    BY <1>1, <1>11
       DEF SweepDrop, ControlTypes, LockHeldExactlyInside, SweepSingleFlight,
           Inside
  <2>3. QED
    BY <2>1, <2>2 DEF Control
<1>12. ASSUME NEW w \in Workers, WalkOom(w) PROVE Control'
  <2>1. ControlTypes'
    BY <1>1, <1>12 DEF WalkOom, Leave, ControlTypes
  <2>2. LockHeldExactlyInside' /\ SweepSingleFlight'
    BY <1>1, <1>12
       DEF WalkOom, Leave, ControlTypes, LockHeldExactlyInside, SweepSingleFlight,
           Inside
  <2>3. QED
    BY <2>1, <2>2 DEF Control
<1>13. ASSUME NEW w \in Workers, NextRid(w) PROVE Control'
  <2>1. Head(rids[w]) \in Rids /\ Tail(rids[w]) \in Seq(Rids)
    BY <1>1, <1>13 DEF NextRid, ControlTypes
  <2>2. Watchers[Head(rids[w])] \in Seq(Corrs)
    BY <2>1, EngineAssumption
  <2>3. ControlTypes'
    BY <1>1, <1>13, <2>1, <2>2 DEF NextRid, ControlTypes
  <2>4. LockHeldExactlyInside' /\ SweepSingleFlight'
    BY <1>1, <1>13
       DEF NextRid, ControlTypes, LockHeldExactlyInside, SweepSingleFlight, Inside
  <2>5. QED
    BY <2>3, <2>4 DEF Control
<1>14. ASSUME NEW w \in Workers, AlreadyVisited(w) PROVE Control'
  <2>1. ControlTypes'
    BY <1>1, <1>14 DEF AlreadyVisited, ControlTypes
  <2>2. LockHeldExactlyInside' /\ SweepSingleFlight'
    BY <1>1, <1>14
       DEF AlreadyVisited, ControlTypes, LockHeldExactlyInside, SweepSingleFlight,
           Inside
  <2>3. QED
    BY <2>1, <2>2 DEF Control
<1>15. ASSUME NEW w \in Workers, SkipCorrelation(w) PROVE Control'
  <2>1. ControlTypes'
    BY <1>1, <1>15 DEF SkipCorrelation, Visit, ControlTypes
  <2>2. LockHeldExactlyInside' /\ SweepSingleFlight'
    BY <1>1, <1>15
       DEF SkipCorrelation, Visit, ControlTypes, LockHeldExactlyInside,
           SweepSingleFlight, Inside
  <2>3. QED
    BY <2>1, <2>2 DEF Control
<1>16. ASSUME NEW w \in Workers, Resolve(w) PROVE Control'
  <2>1. ControlTypes'
    BY <1>1, <1>16 DEF Resolve, Visit, ControlTypes
  <2>2. LockHeldExactlyInside' /\ SweepSingleFlight'
    BY <1>1, <1>16
       DEF Resolve, Visit, ControlTypes, LockHeldExactlyInside, SweepSingleFlight,
           Inside
  <2>3. QED
    BY <2>1, <2>2 DEF Control
<1>17. ASSUME NEW w \in Workers, Return(w) PROVE Control'
  <2>1. ControlTypes'
    BY <1>1, <1>17 DEF Return, Leave, ControlTypes
  <2>2. LockHeldExactlyInside' /\ SweepSingleFlight'
    BY <1>1, <1>17
       DEF Return, Leave, ControlTypes, LockHeldExactlyInside, SweepSingleFlight,
           Inside
  <2>3. QED
    BY <2>1, <2>2 DEF Control
<1>18. ASSUME NEW w \in Workers, Admit(w) PROVE Control'
  <2>1. ControlTypes'
    BY <1>1, <1>18 DEF Admit, ControlTypes
  <2>2. LockHeldExactlyInside' /\ SweepSingleFlight'
    BY <1>1, <1>18
       DEF Admit, ControlTypes, LockHeldExactlyInside, SweepSingleFlight, Inside
  <2>3. QED
    BY <2>1, <2>2 DEF Control
<1>19. ASSUME NEW w \in Workers, AdmitOom(w) PROVE Control'
  <2>1. ControlTypes'
    BY <1>1, <1>19 DEF AdmitOom, Unlock, ControlTypes
  <2>2. LockHeldExactlyInside' /\ SweepSingleFlight'
    BY <1>1, <1>19
       DEF AdmitOom, Unlock, ControlTypes, LockHeldExactlyInside,
           SweepSingleFlight, Inside
  <2>3. QED
    BY <2>1, <2>2 DEF Control
<1>20. ASSUME NEW w \in Workers, NoFire(w) PROVE Control'
  <2>1. ControlTypes'
    BY <1>1, <1>20 DEF NoFire, Unlock, ControlTypes
  <2>2. LockHeldExactlyInside' /\ SweepSingleFlight'
    BY <1>1, <1>20
       DEF NoFire, Unlock, ControlTypes, LockHeldExactlyInside, SweepSingleFlight,
           Inside
  <2>3. QED
    BY <2>1, <2>2 DEF Control
<1>21. ASSUME NEW w \in Workers, Suppress(w) PROVE Control'
  <2>1. ControlTypes'
    BY <1>1, <1>21 DEF Suppress, Unlock, ControlTypes
  <2>2. LockHeldExactlyInside' /\ SweepSingleFlight'
    BY <1>1, <1>21
       DEF Suppress, Unlock, ControlTypes, LockHeldExactlyInside,
           SweepSingleFlight, Inside
  <2>3. QED
    BY <2>1, <2>2 DEF Control
<1>22. ASSUME NEW w \in Workers, Fire(w) PROVE Control'
  <2>1. ControlTypes'
    BY <1>1, <1>22 DEF Fire, Unlock, ControlTypes
  <2>2. LockHeldExactlyInside' /\ SweepSingleFlight'
    BY <1>1, <1>22
       DEF Fire, Unlock, ControlTypes, LockHeldExactlyInside, SweepSingleFlight,
           Inside
  <2>3. QED
    BY <2>1, <2>2 DEF Control
<1>23. ASSUME NEW w \in Workers, NEW t \in Time, NEW todo \in Seq(Rids),
              NEW first \in Seq(Corrs), Enter(w, t, todo, first)
       PROVE  Control'
  <2>1. calls' \in 0 .. MaxCalls
    BY <1>1, <1>23, EngineAssumption DEF Enter, ControlTypes
  <2>2. clock' \in Time
    BY <1>1, <1>23 DEF Enter, ControlTypes
  <2>3. ControlTypes'
    BY <1>1, <1>23, <2>1, <2>2 DEF Enter, ControlTypes
  <2>4. LockHeldExactlyInside' /\ SweepSingleFlight'
    BY <1>1, <1>23
       DEF Enter, ControlTypes, LockHeldExactlyInside, SweepSingleFlight, Inside
  <2>5. QED
    BY <2>3, <2>4 DEF Control
<1>24. ASSUME NEW w \in Workers, OnEvent(w) PROVE Control'
  <2>1. PICK t \in Time, event \in Events : Enter(w, t, event, <<>>)
    BY <1>24 DEF OnEvent
  <2>2. event \in Seq(Rids) /\ <<>> \in Seq(Corrs)
    BY EngineAssumption
  <2>3. QED
    BY <1>23, <2>1, <2>2
<1>25. ASSUME NEW w \in Workers, OnContribution(w) PROVE Control'
  <2>1. \A c \in Corrs : <<c>> \in Seq(Corrs)
    OBVIOUS
  <2>2. <<>> \in Seq(Corrs) /\ <<>> \in Seq(Rids)
    OBVIOUS
  <2>3. QED
    BY <1>23, <1>25, <2>1, <2>2 DEF OnContribution
<1>26. CASE UNCHANGED vars
  BY <1>1, <1>26
     DEF vars, Control, ControlTypes, LockHeldExactlyInside, SweepSingleFlight,
         Inside
<1>27. QED
  BY <1>2, <1>3, <1>4, <1>5, <1>6, <1>7, <1>8, <1>9, <1>10, <1>11, <1>12,
     <1>13, <1>14, <1>15, <1>16, <1>17, <1>18, <1>19, <1>20, <1>21, <1>22,
     <1>24, <1>25, <1>26
     DEF Next, Step, Sweep, Walk, Evaluate, Finished

-----------------------------------------------------------------------------
\* Every map is OK, and a group in use is resident.
Groups ==
  /\ DOMAIN map = Corrs
  /\ \A c \in Corrs : OkMap(map[c])
  /\ HeldGroupResident

\* calloc: every map starts empty.
LEMMA GroupsInit == Init => Groups
<1> SUFFICES ASSUME Init PROVE Groups
  OBVIOUS
<1>1. DOMAIN map = Corrs /\ \A c \in Corrs : map[c] = EmptyMap
  BY DEF Init
<1>2. \A c \in Corrs : OkMap(map[c])
  BY <1>1, EmptyMapOk
<1>3. HeldGroupResident
  BY DEF Init, HeldGroupResident, At
<1>4. QED
  BY <1>1, <1>2, <1>3 DEF Groups

\* What every step on one map has to keep.  A worker at "eval" is inside its
\* correlation, so no other worker's step is on the map its group is in.
LEMMA OneMapChanges ==
  ASSUME Control, Control', Groups,
         NEW w \in Workers, Inside(w, cur[w]),
         NEW m, OkMap(m), map' = [map EXCEPT ![cur[w]] = m],
         pc'[w] = "eval" => cur'[w] = cur[w] /\ key'[w] \in Resident(m),
         \A v \in Workers \ {w} :
           pc'[v] = pc[v] /\ cur'[v] = cur[v] /\ key'[v] = key[v]
  PROVE  Groups'
<1>1. DOMAIN map' = Corrs /\ cur[w] \in Corrs
  BY DEF Groups, Control, ControlTypes
<1>2. \A c \in Corrs : map'[c] = IF c = cur[w] THEN m ELSE map[c]
  BY DEF Groups
<1>3. \A c \in Corrs : OkMap(map'[c])
  BY <1>2 DEF Groups
<1>4. ASSUME NEW v \in Workers, pc'[v] = "eval"
      PROVE  key'[v] \in Resident(map'[cur'[v]])
  <2>1. CASE v = w
    BY <1>1, <1>2, <1>4, <2>1
  <2>2. CASE v # w
    <3>1. pc[v] = "eval" /\ cur'[v] = cur[v] /\ key'[v] = key[v]
      BY <1>4, <2>2
    <3>2. cur[v] \in Corrs /\ Inside(v, cur[v])
      BY <3>1 DEF Control, ControlTypes, Inside
    <3>3. lock[cur[v]] = v /\ lock[cur[w]] = w
      BY <1>1, <3>2 DEF Control, LockHeldExactlyInside
    <3>4. cur[v] # cur[w]
      BY <2>2, <3>3
    <3>5. map'[cur'[v]] = map[cur[v]]
      BY <1>2, <3>1, <3>2, <3>4
    <3>6. key[v] \in Resident(map[cur[v]])
      BY <3>1 DEF Groups, HeldGroupResident, At
    <3>7. QED
      BY <3>1, <3>5, <3>6
  <2>3. QED
    BY <2>1, <2>2
<1>5. QED
  BY <1>1, <1>3, <1>4 DEF Groups, HeldGroupResident, At

\* A step that touches no map and brings nobody to "eval".
LEMMA NoMapChanges ==
  ASSUME Groups, map' = map,
         \A v \in Workers :
           pc'[v] = "eval" => /\ pc[v] = "eval"
                              /\ cur'[v] = cur[v] /\ key'[v] = key[v]
  PROVE  Groups'
BY DEF Groups, HeldGroupResident, At

\* Only four steps write a map: a sweep's drop, an admission, one that fails,
\* and a fire; each does so from inside the correlation.
LEMMA GroupsNext == Control /\ Control' /\ Groups /\ [Next]_vars => Groups'
<1> SUFFICES ASSUME Control, Control', Groups, [Next]_vars PROVE Groups'
  OBVIOUS
<1> USE DEF At, Goto, engine, walk, target, call
<1>1. /\ pc \in [Workers -> {"idle", "sweep", "due", "start", "sweepState", "drop",
                             "walk", "lock", "admit", "eval"}]
      /\ cur \in [Workers -> Corrs] /\ key \in [Workers -> Keys \cup {NoKey}]
      /\ \A w \in Workers : key[w] \in Keys <=> pc[w] \in {"lock", "admit", "eval"}
      /\ ts \in [Workers -> Time] /\ Time \subseteq Nat
      /\ Timespan \in [Corrs -> Nat \ {0}]
      /\ \A c \in Corrs : OkMap(map[c])
  BY EngineAssumption DEF Control, ControlTypes, Groups, Time
<1>2. ASSUME NEW w \in Workers, SweepBusy(w) PROVE Groups'
  BY <1>1, <1>2, NoMapChanges DEF SweepBusy
<1>3. ASSUME NEW w \in Workers, SweepTrylock(w) PROVE Groups'
  BY <1>1, <1>3, NoMapChanges DEF SweepTrylock
<1>4. ASSUME NEW w \in Workers, SweepFirst(w) PROVE Groups'
  BY <1>1, <1>4, NoMapChanges DEF SweepFirst
<1>5. ASSUME NEW w \in Workers, SweepNotDue(w) PROVE Groups'
  BY <1>1, <1>5, NoMapChanges DEF SweepNotDue
<1>6. ASSUME NEW w \in Workers, SweepDue(w) PROVE Groups'
  BY <1>1, <1>6, NoMapChanges DEF SweepDue
<1>7. ASSUME NEW w \in Workers, SweepStart(w) PROVE Groups'
  BY <1>1, <1>7, NoMapChanges DEF SweepStart
<1>8. ASSUME NEW w \in Workers, SweepLock(w) PROVE Groups'
  BY <1>1, <1>8, NoMapChanges DEF SweepLock
<1>9. ASSUME NEW w \in Workers, SweepNext(w) PROVE Groups'
  BY <1>1, <1>9, NoMapChanges DEF SweepNext
<1>10. ASSUME NEW w \in Workers, WalkOom(w) PROVE Groups'
  BY <1>1, <1>10, NoMapChanges DEF WalkOom, Leave
<1>11. ASSUME NEW w \in Workers, NextRid(w) PROVE Groups'
  BY <1>1, <1>11, NoMapChanges DEF NextRid
<1>12. ASSUME NEW w \in Workers, AlreadyVisited(w) PROVE Groups'
  BY <1>1, <1>12, NoMapChanges DEF AlreadyVisited
<1>13. ASSUME NEW w \in Workers, SkipCorrelation(w) PROVE Groups'
  BY <1>1, <1>13, NoMapChanges DEF SkipCorrelation, Visit
<1>14. ASSUME NEW w \in Workers, Resolve(w) PROVE Groups'
  BY <1>1, <1>14, NoMapChanges DEF Resolve, Visit
<1>15. ASSUME NEW w \in Workers, Return(w) PROVE Groups'
  BY <1>1, <1>15, NoMapChanges DEF Return, Leave
<1>16. ASSUME NEW w \in Workers, Lock(w) PROVE Groups'
  BY <1>1, <1>16, NoMapChanges DEF Lock
<1>17. ASSUME NEW w \in Workers, NoFire(w) PROVE Groups'
  BY <1>1, <1>17, NoMapChanges DEF NoFire, Unlock
<1>18. ASSUME NEW w \in Workers, Suppress(w) PROVE Groups'
  BY <1>1, <1>18, NoMapChanges DEF Suppress, Unlock
<1>19. ASSUME NEW w \in Workers, OnEvent(w) \/ OnContribution(w) PROVE Groups'
  BY <1>1, <1>19, NoMapChanges DEF OnEvent, OnContribution, Enter
<1>20. ASSUME NEW w \in Workers, SweepDrop(w) PROVE Groups'
  <2>1. PICK k \in Resident(map[cur[w]]) :
          map' = [map EXCEPT ![cur[w]] = DropGroup(map[cur[w]], k)]
    BY <1>20 DEF SweepDrop, Expired
  <2>2. OkMap(DropGroup(map[cur[w]], k))
    BY <1>1, DropMap
  <2>3. Inside(w, cur[w])
    BY <1>20 DEF SweepDrop, Inside
  <2>4. pc'[w] # "eval" /\ UNCHANGED <<pc, cur, key>>
    BY <1>20 DEF SweepDrop
  <2>5. QED
    BY <2>1, <2>2, <2>3, <2>4, OneMapChanges
<1>21. ASSUME NEW w \in Workers, Admit(w) PROVE Groups'
  <2> DEFINE k == key[w]
             m == GetOrCreate(map[cur[w]], k)
             r == [m EXCEPT !.tab[k].last = ts[w]]
  <2>1. /\ pc[w] = "admit" /\ pc'[w] = "eval" /\ UNCHANGED <<cur, key>>
        /\ \A v \in Workers \ {w} : pc'[v] = pc[v]
        /\ map' = [map EXCEPT ![cur[w]] = r]
    BY <1>1, <1>21 DEF Admit
  <2>2. k \in Keys /\ OkMap(map[cur[w]]) /\ ts[w] \in Nat
    BY <1>1, <2>1
  <2>3. OkMap(m) /\ k \in Resident(m)
    BY <2>2, GetOrCreateMap
  <2> HIDE DEF k, m
  <2>4. OkMap(r) /\ k \in Resident(r)
    BY <2>2, <2>3, WriteLastMap
  <2> HIDE DEF r
  <2>5. Inside(w, cur[w])
    BY <2>1 DEF Inside
  <2>6. key'[w] = k
    BY <2>1 DEF k
  <2>7. QED
    BY <2>1, <2>4, <2>5, <2>6, OneMapChanges
<1>22. ASSUME NEW w \in Workers, AdmitOom(w) PROVE Groups'
  <2>1. /\ pc[w] = "admit" /\ pc'[w] = "walk"
        /\ \A v \in Workers \ {w} : pc'[v] = pc[v] /\ cur'[v] = cur[v] /\ key'[v] = key[v]
        /\ map' = [map EXCEPT ![cur[w]] = MakeRoom(map[cur[w]])]
    BY <1>1, <1>22 DEF AdmitOom, Unlock
  <2>2. OkMap(MakeRoom(map[cur[w]])) /\ Inside(w, cur[w])
    BY <1>1, <2>1, MakeRoomMap DEF Inside
  <2>3. QED
    BY <2>1, <2>2, OneMapChanges
<1>23. ASSUME NEW w \in Workers, Fire(w) PROVE Groups'
  <2> DEFINE m == map[cur[w]]
             until == ts[w] + Timespan[cur[w]]
             r == [m EXCEPT !.tab[key[w]].lit = until]
  <2>1. /\ pc[w] = "eval" /\ pc'[w] = "walk"
        /\ \A v \in Workers \ {w} : pc'[v] = pc[v] /\ cur'[v] = cur[v] /\ key'[v] = key[v]
        /\ map' = [map EXCEPT ![cur[w]] = r]
    BY <1>1, <1>23 DEF Fire, Unlock
  <2>2. OkMap(m) /\ key[w] \in Resident(m)
    BY <1>1, <2>1 DEF Groups, HeldGroupResident
  <2>3. until \in Nat
    <3>1. ts[w] \in Nat
      BY <1>1
    <3>2. cur[w] \in Corrs
      BY <1>1
    <3>3. Timespan[cur[w]] \in Nat \ {0}
      BY <3>2, EngineAssumption
    <3>4. QED
      BY <3>1, <3>3
  <2> HIDE DEF m, until
  <2>4. OkMap(r) /\ Inside(w, cur[w])
    BY <2>1, <2>2, <2>3, WriteLitMap DEF Inside
  <2> HIDE DEF r
  <2>5. QED
    BY <2>1, <2>4, OneMapChanges
<1>24. CASE UNCHANGED vars
  BY <1>1, <1>24, NoMapChanges DEF vars
<1>25. QED
  BY <1>2, <1>3, <1>4, <1>5, <1>6, <1>7, <1>8, <1>9, <1>10, <1>11, <1>12, <1>13,
     <1>14, <1>15, <1>16, <1>17, <1>18, <1>19, <1>20, <1>21, <1>22, <1>23, <1>24
     DEF Next, Step, Sweep, Walk, Evaluate, Finished

-----------------------------------------------------------------------------
\* The lock discipline and the maps, in every state of every execution.
LEMMA ControlAndGroups == Spec => [](Control /\ Groups)
<1>1. Init => Control /\ Groups
  BY ControlInit, GroupsInit
<1>2. (Control /\ Groups) /\ [Next]_vars => (Control /\ Groups)'
  BY ControlNext, GroupsNext
<1>3. QED
  BY <1>1, <1>2, PTL DEF Spec

\* The variables keep their types: no step of any worker leaves a map with a
\* count, list or table that is none.
THEOREM EngineTypeCorrect == Spec => []TypeOK
<1>1. Control /\ Groups => TypeOK
  BY DEF Control, ControlTypes, Groups, OkMap, TypeOK
<1>2. QED
  BY <1>1, ControlAndGroups, PTL

\* The table, the LRU list and the count of every correlation agree and stay
\* within max_groups, whatever admissions, evictions, failed allocations and
\* sweeps the workers interleave (cstate_get_or_create, cstate_drop_expired).
THEOREM MapsStayConsistent == Spec => []MapsConsistent
<1>1. Groups => MapsConsistent
  BY DEF Groups, OkMap, MapsConsistent
<1>2. QED
  BY <1>1, ControlAndGroups, PTL

\* st->lock is held by exactly the worker inside its groups, on every path
\* through corr_on_event_apply and sweep_if_due.
THEOREM LocksAreExact == Spec => []LockHeldExactlyInside
<1>1. Control => LockHeldExactlyInside
  BY DEF Control
<1>2. QED
  BY <1>1, ControlAndGroups, PTL

\* sweep_lock admits one sweeper and every path out of sweep_if_due releases it.
THEOREM OneSweepAtATime == Spec => []SweepSingleFlight
<1>1. Control => SweepSingleFlight
  BY DEF Control
<1>2. QED
  BY <1>1, ControlAndGroups, PTL

\* The group cstate_get_or_create returned is not freed by an eviction or a
\* sweep while its worker still reads and writes it.
THEOREM HeldGroupsStay == Spec => []HeldGroupResident
<1>1. Groups => HeldGroupResident
  BY DEF Groups
<1>2. QED
  BY <1>1, ControlAndGroups, PTL

-----------------------------------------------------------------------------
\* A worker that is about to record its sweep found it due, and last_sweep has
\* not moved since: sweep_lock is its own.
Due ==
  \A w \in Workers :
    At(w, "start") => /\ lastSweep \in Time
                      /\ ts[w] - lastSweep >= SweepInterval

\* Only SweepDue brings a worker to "start", with sweep_lock in its hands.
LEMMA DueNext == Control /\ Due /\ [Next]_vars => Due'
<1> SUFFICES ASSUME Control, Due, [Next]_vars PROVE Due'
  OBVIOUS
<1> USE DEF At, Goto, engine, walk, target, call
<1>1. /\ pc \in [Workers -> {"idle", "sweep", "due", "start", "sweepState", "drop",
                             "walk", "lock", "admit", "eval"}]
      /\ ts \in [Workers -> Time] /\ lastSweep \in Time \cup {Never}
      /\ SweepSingleFlight
  BY DEF Control, ControlTypes
\* Nobody comes to "start", and the interval is as it was for who is there.
<1>2. ASSUME lastSweep' = lastSweep,
             \A v \in Workers : pc'[v] = "start" => pc[v] = "start" /\ ts'[v] = ts[v]
      PROVE  Due'
  BY <1>2 DEF Due
<1>3. ASSUME NEW w \in Workers, SweepBusy(w) PROVE Due'
  BY <1>1, <1>2, <1>3 DEF SweepBusy
<1>4. ASSUME NEW w \in Workers, SweepTrylock(w) PROVE Due'
  BY <1>1, <1>2, <1>4 DEF SweepTrylock
<1>5. ASSUME NEW w \in Workers, SweepNotDue(w) PROVE Due'
  BY <1>1, <1>2, <1>5 DEF SweepNotDue
<1>6. ASSUME NEW w \in Workers, SweepLock(w) PROVE Due'
  BY <1>1, <1>2, <1>6 DEF SweepLock
<1>7. ASSUME NEW w \in Workers, SweepDrop(w) PROVE Due'
  BY <1>1, <1>2, <1>7 DEF SweepDrop
<1>8. ASSUME NEW w \in Workers, SweepNext(w) PROVE Due'
  BY <1>1, <1>2, <1>8 DEF SweepNext
<1>9. ASSUME NEW w \in Workers, WalkOom(w) PROVE Due'
  BY <1>1, <1>2, <1>9 DEF WalkOom, Leave
<1>10. ASSUME NEW w \in Workers, NextRid(w) PROVE Due'
  BY <1>1, <1>2, <1>10 DEF NextRid
<1>11. ASSUME NEW w \in Workers, AlreadyVisited(w) PROVE Due'
  BY <1>1, <1>2, <1>11 DEF AlreadyVisited
<1>12. ASSUME NEW w \in Workers, SkipCorrelation(w) PROVE Due'
  BY <1>1, <1>2, <1>12 DEF SkipCorrelation, Visit
<1>13. ASSUME NEW w \in Workers, Resolve(w) PROVE Due'
  BY <1>1, <1>2, <1>13 DEF Resolve, Visit
<1>14. ASSUME NEW w \in Workers, Return(w) PROVE Due'
  BY <1>1, <1>2, <1>14 DEF Return, Leave
<1>15. ASSUME NEW w \in Workers, Lock(w) PROVE Due'
  BY <1>1, <1>2, <1>15 DEF Lock
<1>16. ASSUME NEW w \in Workers, Admit(w) PROVE Due'
  BY <1>1, <1>2, <1>16 DEF Admit
<1>17. ASSUME NEW w \in Workers, AdmitOom(w) PROVE Due'
  BY <1>1, <1>2, <1>17 DEF AdmitOom, Unlock
<1>18. ASSUME NEW w \in Workers, NoFire(w) PROVE Due'
  BY <1>1, <1>2, <1>18 DEF NoFire, Unlock
<1>19. ASSUME NEW w \in Workers, Suppress(w) PROVE Due'
  BY <1>1, <1>2, <1>19 DEF Suppress, Unlock
<1>20. ASSUME NEW w \in Workers, Fire(w) PROVE Due'
  BY <1>1, <1>2, <1>20 DEF Fire, Unlock
<1>21. ASSUME NEW w \in Workers, OnEvent(w) \/ OnContribution(w) PROVE Due'
  BY <1>1, <1>2, <1>21 DEF OnEvent, OnContribution, Enter
\* The only worker between "due" and the end of its sweep is w.
<1>22. ASSUME NEW w \in Workers, SweepFirst(w) PROVE Due'
  <2>1. pc'[w] # "start" /\ pc[w] \in {"due", "start"}
    BY <1>1, <1>22 DEF SweepFirst
  <2>2. \A v \in Workers \ {w} : pc'[v] = pc[v] /\ pc[v] # "start"
    BY <1>1, <1>22, <2>1 DEF SweepFirst, SweepSingleFlight
  <2>3. QED
    BY <2>1, <2>2 DEF Due
\* The only worker between "due" and the end of its sweep is w.
<1>23. ASSUME NEW w \in Workers, SweepStart(w) PROVE Due'
  <2>1. pc'[w] # "start" /\ pc[w] \in {"due", "start"}
    BY <1>1, <1>23 DEF SweepStart
  <2>2. \A v \in Workers \ {w} : pc'[v] = pc[v] /\ pc[v] # "start"
    BY <1>1, <1>23, <2>1 DEF SweepStart, SweepSingleFlight
  <2>3. QED
    BY <2>1, <2>2 DEF Due
<1>24. ASSUME NEW w \in Workers, SweepDue(w) PROVE Due'
  <2>1. lastSweep \in Time /\ ts[w] - lastSweep >= SweepInterval
    BY <1>1, <1>24 DEF SweepDue
  <2>2. /\ UNCHANGED <<lastSweep, ts>>
        /\ \A v \in Workers \ {w} : pc'[v] = pc[v]
    BY <1>1, <1>24 DEF SweepDue
  <2>3. QED
    BY <2>1, <2>2 DEF Due
<1>25. CASE UNCHANGED vars
  BY <1>1, <1>2, <1>25 DEF vars
<1>26. QED
  BY <1>3, <1>4, <1>5, <1>6, <1>7, <1>8, <1>9, <1>10, <1>11, <1>12, <1>13, <1>14,
     <1>15, <1>16, <1>17, <1>18, <1>19, <1>20, <1>21, <1>22, <1>23, <1>24, <1>25
     DEF Next, Step, Sweep, Walk, Evaluate, Finished

\* Two sweeps are at least sweep_interval_s apart, whichever workers run them:
\* last_sweep is tested and set under sweep_lock.
THEOREM SweepsStaySpaced == Spec => SweepsSpaced
<1> DEFINE Spaced == lastSweep' # lastSweep =>
                       lastSweep = Never \/ lastSweep' >= lastSweep + SweepInterval
<1>1. Init => Due
  BY DEF Init, Due, At
<1>2. Control /\ Due /\ [Next]_vars => [Spaced]_vars
  <2> SUFFICES ASSUME Control, Due, Next PROVE Spaced
    OBVIOUS
  <2> USE DEF At, engine, walk, target, call
  <2>1. ASSUME NEW w \in Workers, SweepFirst(w) PROVE Spaced
    BY <2>1 DEF SweepFirst
  <2>2. ASSUME NEW w \in Workers, SweepStart(w) PROVE Spaced
    <3>1. /\ lastSweep \in Int /\ ts[w] \in Int
          /\ ts[w] - lastSweep >= SweepInterval
      BY <2>2 DEF SweepStart, Due, Control, ControlTypes, Time
    <3>2. lastSweep' = ts[w] /\ SweepInterval \in Int
      BY <2>2, EngineAssumption DEF SweepStart
    <3>3. QED
      BY <3>1, <3>2
  <2>3. ASSUME NEW w \in Workers, Sweep(w), ~SweepFirst(w), ~SweepStart(w)
        PROVE  lastSweep' = lastSweep
    BY <2>3 DEF Sweep, SweepBusy, SweepTrylock, SweepNotDue, SweepDue, SweepLock,
                SweepDrop, SweepNext
  <2>4. ASSUME NEW w \in Workers, Walk(w)
        PROVE  lastSweep' = lastSweep
    BY <2>4 DEF Walk, WalkOom, NextRid, AlreadyVisited, SkipCorrelation, Resolve,
                Return, Leave
  <2>5. ASSUME NEW w \in Workers, Evaluate(w)
        PROVE  lastSweep' = lastSweep
    BY <2>5 DEF Evaluate, Lock, Admit, AdmitOom, NoFire, Suppress, Fire
  <2>6. ASSUME NEW w \in Workers, OnEvent(w) \/ OnContribution(w)
        PROVE  lastSweep' = lastSweep
    BY <2>6 DEF OnEvent, OnContribution, Enter
  <2>7. CASE UNCHANGED vars
    BY <2>7 DEF vars
  <2>8. QED
    BY <2>1, <2>2, <2>3, <2>4, <2>5, <2>6, <2>7 DEF Next, Step, Finished
<1>3. QED
  BY <1>1, <1>2, DueNext, ControlInit, ControlNext, PTL DEF Spec, SweepsSpaced

-----------------------------------------------------------------------------
\* The account of a call: each correlation that watches its event has been
\* handled, once, or is still to come from the current rid or from a later one.
Accounted ==
  /\ watched \in [Workers -> SUBSET Corrs]
  /\ handled \in [Workers -> Seq(Corrs)]
  /\ \A w \in Workers :
       /\ IsInjective(handled[w])
       /\ ToSet(handled[w]) = visited[w]
       /\ watched[w] = visited[w] \cup ToSet(cands[w]) \cup WatchersOf(rids[w])
       /\ At(w, "idle") => handled[w] = <<>>

\* The first element of a sequence and the others are all of it.
LEMMA HeadTailSet ==
  ASSUME NEW S, NEW s \in Seq(S), s # <<>>
  PROVE  ToSet(s) = {Head(s)} \cup ToSet(Tail(s))
<1>1. /\ Len(s) \in Nat /\ Len(s) >= 1 /\ DOMAIN s = 1 .. Len(s)
      /\ Tail(s) \in Seq(S) /\ Len(Tail(s)) = Len(s) - 1
      /\ DOMAIN Tail(s) = 1 .. Len(s) - 1
      /\ \A i \in 1 .. Len(s) - 1 : Tail(s)[i] = s[i + 1]
      /\ Head(s) = s[1]
  BY EmptySeq, HeadTailProperties
<1>2. ASSUME NEW i \in 1 .. Len(s)
      PROVE  s[i] \in {Head(s)} \cup ToSet(Tail(s))
  <2>1. CASE i = 1
    BY <1>1, <2>1
  <2>2. CASE i # 1
    <3>1. i - 1 \in 1 .. Len(s) - 1 /\ Tail(s)[i - 1] = s[(i - 1) + 1]
      BY <1>1, <2>2
    <3>2. Tail(s)[i - 1] = s[i]
      BY <3>1
    <3>3. QED
      BY <1>1, <3>1, <3>2 DEF ToSet
  <2>3. QED
    BY <2>1, <2>2
<1>3. ASSUME NEW i \in 1 .. Len(s) - 1
      PROVE  Tail(s)[i] \in ToSet(s)
  <2>1. i + 1 \in 1 .. Len(s)
    BY <1>1
  <2>2. QED
    BY <1>1, <2>1 DEF ToSet
<1>4. Head(s) \in ToSet(s)
  BY <1>1 DEF ToSet
<1>5. QED
  BY <1>1, <1>2, <1>3, <1>4 DEF ToSet

\* The watchers of an event are those of its first rid and of the others.
LEMMA HeadTailWatchers ==
  ASSUME NEW s \in Seq(Rids), s # <<>>
  PROVE  WatchersOf(s) = ToSet(Watchers[Head(s)]) \cup WatchersOf(Tail(s))
<1>1. \A e \in Seq(Rids) : WatchersOf(e) = UNION {ToSet(Watchers[r]) : r \in ToSet(e)}
  BY DEF WatchersOf, ToSet
<1>2. Tail(s) \in Seq(Rids) /\ ToSet(s) = {Head(s)} \cup ToSet(Tail(s))
  BY HeadTailSet
<1> DEFINE W(e) == UNION {ToSet(Watchers[r]) : r \in e}
<1>3. W({Head(s)} \cup ToSet(Tail(s))) = ToSet(Watchers[Head(s)]) \cup W(ToSet(Tail(s)))
  OBVIOUS
<1>4. WatchersOf(s) = W(ToSet(s)) /\ WatchersOf(Tail(s)) = W(ToSet(Tail(s)))
  BY <1>1, <1>2
<1>5. QED
  BY <1>2, <1>3, <1>4

\* A worker that has made no call has nothing to account for.
LEMMA AccountedInit == Init => Accounted
<1> SUFFICES ASSUME Init PROVE Accounted
  OBVIOUS
<1>1. IsInjective(<<>>) /\ ToSet(<<>>) = {} /\ WatchersOf(<<>>) = {}
  BY DEF IsInjective, ToSet, WatchersOf
<1>2. <<>> \in Seq(Corrs)
  OBVIOUS
<1>3. QED
  BY <1>1, <1>2 DEF Init, Accounted

\* A correlation moves from what is left to what is handled, or out of the
\* account because it was handled already.
LEMMA AccountedNext == Control /\ Accounted /\ [Next]_vars => Accounted'
<1> SUFFICES ASSUME Control, Accounted, [Next]_vars PROVE Accounted'
  OBVIOUS
<1> USE DEF At, Goto, engine, walk, target, call
<1>1. /\ pc \in [Workers -> {"idle", "sweep", "due", "start", "sweepState", "drop",
                             "walk", "lock", "admit", "eval"}]
      /\ rids \in [Workers -> Seq(Rids)] /\ cands \in [Workers -> Seq(Corrs)]
      /\ visited \in [Workers -> SUBSET Corrs]
      /\ watched \in [Workers -> SUBSET Corrs]
      /\ handled \in [Workers -> Seq(Corrs)]
  BY DEF Control, ControlTypes, Accounted
<1>2. IsInjective(<<>>) /\ ToSet(<<>>) = {} /\ WatchersOf(<<>>) = {}
  BY DEF IsInjective, ToSet, WatchersOf
\* Nothing of the account changes and nobody becomes idle.
<1>3. ASSUME UNCHANGED walk,
             \A v \in Workers : pc'[v] = "idle" => pc[v] = "idle"
      PROVE  Accounted'
  BY <1>3 DEF Accounted
<1>4. ASSUME NEW w \in Workers, SweepBusy(w) PROVE Accounted'
  BY <1>1, <1>3, <1>4 DEF SweepBusy
<1>5. ASSUME NEW w \in Workers, SweepTrylock(w) PROVE Accounted'
  BY <1>1, <1>3, <1>5 DEF SweepTrylock
<1>6. ASSUME NEW w \in Workers, SweepFirst(w) PROVE Accounted'
  BY <1>1, <1>3, <1>6 DEF SweepFirst
<1>7. ASSUME NEW w \in Workers, SweepNotDue(w) PROVE Accounted'
  BY <1>1, <1>3, <1>7 DEF SweepNotDue
<1>8. ASSUME NEW w \in Workers, SweepDue(w) PROVE Accounted'
  BY <1>1, <1>3, <1>8 DEF SweepDue
<1>9. ASSUME NEW w \in Workers, SweepStart(w) PROVE Accounted'
  BY <1>1, <1>3, <1>9 DEF SweepStart
<1>10. ASSUME NEW w \in Workers, SweepLock(w) PROVE Accounted'
  BY <1>1, <1>3, <1>10 DEF SweepLock
<1>11. ASSUME NEW w \in Workers, SweepDrop(w) PROVE Accounted'
  BY <1>1, <1>3, <1>11 DEF SweepDrop
<1>12. ASSUME NEW w \in Workers, SweepNext(w) PROVE Accounted'
  BY <1>1, <1>3, <1>12 DEF SweepNext
<1>13. ASSUME NEW w \in Workers, Lock(w) PROVE Accounted'
  BY <1>1, <1>3, <1>13 DEF Lock
<1>14. ASSUME NEW w \in Workers, Admit(w) PROVE Accounted'
  BY <1>1, <1>3, <1>14 DEF Admit
<1>15. ASSUME NEW w \in Workers, AdmitOom(w) PROVE Accounted'
  BY <1>1, <1>3, <1>15 DEF AdmitOom, Unlock
<1>16. ASSUME NEW w \in Workers, NoFire(w) PROVE Accounted'
  BY <1>1, <1>3, <1>16 DEF NoFire, Unlock
<1>17. ASSUME NEW w \in Workers, Suppress(w) PROVE Accounted'
  BY <1>1, <1>3, <1>17 DEF Suppress, Unlock
<1>18. ASSUME NEW w \in Workers, Fire(w) PROVE Accounted'
  BY <1>1, <1>3, <1>18 DEF Fire, Unlock
<1>19. ASSUME NEW w \in Workers, Leave(w) PROVE Accounted'
  <2>1. /\ rids' = [rids EXCEPT ![w] = <<>>] /\ cands' = [cands EXCEPT ![w] = <<>>]
        /\ visited' = [visited EXCEPT ![w] = {}] /\ watched' = [watched EXCEPT ![w] = {}]
        /\ handled' = [handled EXCEPT ![w] = <<>>] /\ pc' = [pc EXCEPT ![w] = "idle"]
    BY <1>19 DEF Leave
  <2>2. /\ rids'[w] = <<>> /\ cands'[w] = <<>> /\ visited'[w] = {}
        /\ watched'[w] = {} /\ handled'[w] = <<>>
    BY <1>1, <2>1
  <2>3. \A v \in Workers \ {w} :
          /\ rids'[v] = rids[v] /\ cands'[v] = cands[v] /\ visited'[v] = visited[v]
          /\ watched'[v] = watched[v] /\ handled'[v] = handled[v] /\ pc'[v] = pc[v]
    BY <1>1, <2>1
  <2>4. watched' \in [Workers -> SUBSET Corrs] /\ handled' \in [Workers -> Seq(Corrs)]
    <3>1. <<>> \in Seq(Corrs)
      OBVIOUS
    <3>2. QED
      BY <1>1, <2>1, <3>1
  <2>5. QED
    BY <1>2, <2>2, <2>3, <2>4 DEF Accounted
<1>20. ASSUME NEW w \in Workers, WalkOom(w) \/ Return(w) PROVE Accounted'
  BY <1>19, <1>20 DEF WalkOom, Return
<1>21. ASSUME NEW w \in Workers, NextRid(w) PROVE Accounted'
  <2>1. /\ rids[w] # <<>> /\ cands[w] = <<>> /\ pc[w] = "walk"
        /\ cands' = [cands EXCEPT ![w] = Watchers[Head(rids[w])]]
        /\ rids' = [rids EXCEPT ![w] = Tail(rids[w])]
        /\ UNCHANGED <<pc, visited, watched, handled>>
    BY <1>21 DEF NextRid
  <2>2. WatchersOf(rids[w]) = ToSet(Watchers[Head(rids[w])]) \cup WatchersOf(Tail(rids[w]))
    BY <1>1, <2>1, HeadTailWatchers
  <2>3. watched[w] = visited[w] \cup ToSet(Watchers[Head(rids[w])])
                       \cup WatchersOf(Tail(rids[w]))
    BY <1>2, <2>1, <2>2 DEF Accounted
  <2>4. /\ rids'[w] = Tail(rids[w]) /\ cands'[w] = Watchers[Head(rids[w])]
        /\ \A v \in Workers \ {w} : rids'[v] = rids[v] /\ cands'[v] = cands[v]
    BY <1>1, <2>1
  <2>5. QED
    BY <1>1, <2>1, <2>3, <2>4 DEF Accounted
<1>22. ASSUME NEW w \in Workers, AlreadyVisited(w) PROVE Accounted'
  <2>1. /\ cands[w] # <<>> /\ Head(cands[w]) \in visited[w]
        /\ cands' = [cands EXCEPT ![w] = Tail(cands[w])]
        /\ UNCHANGED <<pc, rids, visited, watched, handled>>
    BY <1>22 DEF AlreadyVisited
  <2>2. ToSet(cands[w]) = {Head(cands[w])} \cup ToSet(Tail(cands[w]))
    BY <1>1, <2>1, HeadTailSet
  <2>3. watched[w] = visited[w] \cup ToSet(Tail(cands[w])) \cup WatchersOf(rids[w])
    BY <2>1, <2>2 DEF Accounted
  <2>4. /\ cands'[w] = Tail(cands[w])
        /\ \A v \in Workers \ {w} : cands'[v] = cands[v]
    BY <1>1, <2>1
  <2>5. QED
    BY <1>1, <2>1, <2>3, <2>4 DEF Accounted
<1>23. ASSUME NEW w \in Workers, Visit(w), UNCHANGED <<rids, watched>>,
             \A v \in Workers : pc'[v] = "idle" => pc[v] = "idle"
      PROVE  Accounted'
  <2> DEFINE c == Head(cands[w])
             h == Append(handled[w], c)
  <2>1. /\ cands[w] # <<>> /\ c \notin visited[w] /\ pc[w] = "walk"
        /\ visited' = [visited EXCEPT ![w] = visited[w] \cup {c}]
        /\ cands' = [cands EXCEPT ![w] = Tail(cands[w])]
        /\ handled' = [handled EXCEPT ![w] = h]
    BY <1>23 DEF Visit
  <2>2. /\ c \in Corrs
        /\ ToSet(cands[w]) = {c} \cup ToSet(Tail(cands[w]))
    BY <1>1, <2>1, HeadTailSet, HeadTailProperties
  <2>3. \A s : ToSet(s) = Range(s)
    BY DEF ToSet, Range
  <2>4. handled[w] \in Seq(Corrs) /\ IsInjective(handled[w]) /\ c \notin Range(handled[w])
    BY <1>1, <2>1, <2>3 DEF Accounted
  <2>5. h \in Seq(Corrs) /\ IsInjective(h) /\ Range(h) = Range(handled[w]) \cup {c}
    BY <2>2, <2>4, AppendValue
  <2> HIDE DEF c, h
  <2>6. ToSet(h) = visited[w] \cup {c}
    BY <2>3, <2>5 DEF Accounted
  <2>7. watched[w] = (visited[w] \cup {c}) \cup ToSet(Tail(cands[w])) \cup WatchersOf(rids[w])
    BY <2>2 DEF Accounted
  <2>8. /\ cands'[w] = Tail(cands[w]) /\ visited'[w] = visited[w] \cup {c} /\ handled'[w] = h
        /\ \A v \in Workers \ {w} :
             cands'[v] = cands[v] /\ visited'[v] = visited[v] /\ handled'[v] = handled[v]
        /\ handled' \in [Workers -> Seq(Corrs)]
    BY <1>1, <2>1, <2>5
  <2>9. pc'[w] # "idle"
    BY <1>23, <2>1
  <2>10. QED
    BY <1>1, <1>23, <2>5, <2>6, <2>7, <2>8, <2>9 DEF Accounted
<1>24. ASSUME NEW w \in Workers, SkipCorrelation(w) \/ Resolve(w) PROVE Accounted'
  <2>1. /\ Visit(w) /\ UNCHANGED <<rids, watched>>
        /\ pc' = pc \/ pc' = [pc EXCEPT ![w] = "lock"]
    BY <1>24 DEF SkipCorrelation, Resolve
  <2>2. QED
    BY <1>1, <1>23, <2>1
<1>25. ASSUME NEW w \in Workers, NEW t \in Time, NEW todo \in Seq(Rids),
             NEW first \in Seq(Corrs), Enter(w, t, todo, first),
             watched' = [watched EXCEPT ![w] = ToSet(first) \cup WatchersOf(todo)],
             ToSet(first) \cup WatchersOf(todo) \subseteq Corrs
      PROVE  Accounted'
  <2>1. /\ pc[w] = "idle" /\ pc' = [pc EXCEPT ![w] = "sweep"]
        /\ rids' = [rids EXCEPT ![w] = todo] /\ cands' = [cands EXCEPT ![w] = first]
        /\ UNCHANGED <<visited, handled>>
    BY <1>25 DEF Enter
  <2>2. handled[w] = <<>> /\ visited[w] = {}
    BY <1>2, <2>1 DEF Accounted
  <2>3. /\ rids'[w] = todo /\ cands'[w] = first /\ pc'[w] = "sweep"
        /\ watched'[w] = ToSet(first) \cup WatchersOf(todo)
        /\ \A v \in Workers \ {w} : /\ rids'[v] = rids[v] /\ cands'[v] = cands[v]
                                    /\ pc'[v] = pc[v] /\ watched'[v] = watched[v]
        /\ watched' \in [Workers -> SUBSET Corrs]
    BY <1>1, <1>25, <2>1
  <2>4. QED
    BY <1>1, <2>1, <2>2, <2>3 DEF Accounted
<1>26. \A s \in Seq(Corrs) : ToSet(s) \subseteq Corrs
  BY DEF ToSet
<1>27. ASSUME NEW w \in Workers, OnEvent(w) PROVE Accounted'
  <2>1. PICK t \in Time, event \in Events :
          /\ Enter(w, t, event, <<>>)
          /\ watched' = [watched EXCEPT ![w] = WatchersOf(event)]
    BY <1>27 DEF OnEvent
  <2>2. event \in Seq(Rids) /\ <<>> \in Seq(Corrs)
    BY EngineAssumption
  <2>3. \A i \in DOMAIN event : Watchers[event[i]] \in Seq(Corrs)
    BY <2>2, EngineAssumption
  <2>4. WatchersOf(event) \subseteq Corrs
    BY <1>26, <2>3 DEF WatchersOf
  <2>5. ToSet(<<>>) \cup WatchersOf(event) = WatchersOf(event)
    BY <1>2
  <2>6. QED
    BY <1>25, <2>1, <2>2, <2>4, <2>5
<1>28. ASSUME NEW w \in Workers, OnContribution(w) PROVE Accounted'
  <2>1. PICK t \in Time, first \in {<<>>} \cup {<<c>> : c \in Corrs} :
          /\ Enter(w, t, <<>>, first)
          /\ watched' = [watched EXCEPT ![w] = ToSet(first)]
    BY <1>28 DEF OnContribution
  <2>2. first \in Seq(Corrs) /\ <<>> \in Seq(Rids)
    <3>1. <<>> \in Seq(Corrs) /\ <<>> \in Seq(Rids)
      OBVIOUS
    <3>2. \A c \in Corrs : <<c>> \in Seq(Corrs)
      OBVIOUS
    <3>3. QED
      BY <2>1, <3>1, <3>2
  <2>3. ToSet(first) \cup WatchersOf(<<>>) = ToSet(first)
    BY <1>2
  <2>4. QED
    BY <1>25, <1>26, <2>1, <2>2, <2>3
<1>29. CASE UNCHANGED vars
  BY <1>3, <1>29 DEF vars
<1>30. QED
  BY <1>4, <1>5, <1>6, <1>7, <1>8, <1>9, <1>10, <1>11, <1>12, <1>13, <1>14, <1>15,
     <1>16, <1>17, <1>18, <1>20, <1>21, <1>22, <1>24, <1>27, <1>28, <1>29
     DEF Next, Step, Sweep, Walk, Evaluate, Finished

\* Each correlation handles an event at most once, only if it watches it, and
\* every one that does has handled it when the call's walk ends: visited[] and
\* the rid index of corr_on_event_apply.
THEOREM EachCorrelationOnce == Spec => []OncePerCorrelation
<1>1. Control /\ Accounted => OncePerCorrelation
  <2> SUFFICES ASSUME Control, Accounted, NEW w \in Workers
      PROVE  /\ IsInjective(handled[w])
             /\ ToSet(handled[w]) \subseteq watched[w]
             /\ At(w, "walk") /\ cands[w] = <<>> /\ rids[w] = <<>>
                  => ToSet(handled[w]) = watched[w]
    BY DEF OncePerCorrelation
  <2>1. ToSet(<<>>) = {} /\ WatchersOf(<<>>) = {}
    BY DEF ToSet, WatchersOf
  <2>2. QED
    BY <2>1 DEF Accounted
<1>2. QED
  BY <1>1, AccountedInit, AccountedNext, ControlInit, ControlNext, PTL DEF Spec
-----------------------------------------------------------------------------
(***************************************************************************)
(* The history of fires.  A step of NextFires is a step of Next, so the    *)
(* engine's own invariants carry over.  On top of them, Recency ties the   *)
(* history to the LRU lists, and InOrder ties it to the timestamps the     *)
(* groups hold.                                                            *)
(***************************************************************************)

\* The types of the history.
HistoryTypes ==
  /\ fired \in [Corrs -> [Keys -> Nat \cup {Never}]]
  /\ evicted \in [Corrs -> [Keys -> BOOLEAN]]
  /\ touched \in [Corrs -> Keys \cup {NoKey}]
  /\ newest \in Nat
  /\ disorder \in BOOLEAN

\* A group in use was last updated by the worker that uses it.
HeldGroupUpdated ==
  \A w \in Workers : At(w, "eval") => map[cur[w]].tab[key[w]].last = ts[w]

\* The group used last, if it is still there, is at the end of the list.
Recency ==
  \A c \in Corrs :
    touched[c] \in Resident(map[c]) => EndsIn(map[c].lru, touched[c])

\* A sweep that has started knows no time after newest.
SweepBehind ==
  \A w \in Workers : pc[w] \in {"sweepState", "drop"} => ts[w] <= newest

\* The groups of m were updated by now, and stay lit for at most a window more.
GroupsBehind(m, span, now) ==
  \A k \in Resident(m) :
    m.tab[k].last <= now /\ m.tab[k].lit <= m.tab[k].last + span

\* A fire of k at time f still suppresses the next one, or is a window old: by
\* what its group holds, or, when the group is gone, by what was seen since.
Remembered(m, k, f, span, now) ==
  IF k \in Resident(m)
  THEN \/ m.tab[k].lit = f + span /\ m.tab[k].last >= f
       \/ m.tab[k].last >= f + span
  ELSE now >= f + span

\* What holds while every group is updated in timestamp order.
InOrder ==
  /\ SweepBehind
  /\ \A c \in Corrs : GroupsBehind(map[c], Timespan[c], newest)
  /\ \A c \in Corrs, k \in Keys :
       fired[c][k] # Never /\ ~evicted[c][k] =>
         Remembered(map[c], k, fired[c][k], Timespan[c], newest)

FiresInv ==
  /\ HistoryTypes
  /\ HeldGroupUpdated
  /\ Recency
  /\ ~disorder => InOrder

-----------------------------------------------------------------------------
\* One group map through time and through each write, with the times its groups
\* hold.

\* The fields of a resident group are times.
LEMMA GroupTimes ==
  ASSUME NEW m, OkMap(m), NEW k \in Resident(m)
  PROVE  m.tab[k].last \in Nat /\ m.tab[k].lit \in Nat /\ k \in Keys
BY OkMapFacts DEF Group

\* Time goes by.
LEMMA MapLater ==
  ASSUME NEW m, OkMap(m), NEW span \in Nat, NEW now \in Nat,
         NEW later \in Nat, later >= now
  PROVE  /\ GroupsBehind(m, span, now) => GroupsBehind(m, span, later)
         /\ \A k \in Keys, f \in Nat :
              Remembered(m, k, f, span, now) => Remembered(m, k, f, span, later)
<1>1. GroupsBehind(m, span, now) => GroupsBehind(m, span, later)
  BY GroupTimes DEF GroupsBehind
<1>2. ASSUME NEW k \in Keys, NEW f \in Nat, Remembered(m, k, f, span, now)
      PROVE  Remembered(m, k, f, span, later)
  BY <1>2 DEF Remembered
<1>3. QED
  BY <1>1, <1>2

\* An admission in timestamp order, and the fires of the groups that stay.
LEMMA AdmitTimes ==
  ASSUME NEW m, OkMap(m), NEW k \in Keys, NEW span \in Nat, NEW now \in Nat,
         NEW t \in Nat, t >= now,
         NEW r, r = Admitted(m, k, t),
         GroupsBehind(m, span, now)
  PROVE  /\ GroupsBehind(r, span, t)
         /\ \A j \in Keys, f \in Nat :
              j \notin Resident(m) \ Resident(r)
              /\ Remembered(m, j, f, span, now) => Remembered(r, j, f, span, t)
<1>1. /\ k \in Resident(r) /\ r.tab[k].last = t
      /\ r.tab[k].lit = IF k \in Resident(m) THEN m.tab[k].lit ELSE 0
      /\ \A j \in Resident(r) \ {k} : j \in Resident(m) /\ r.tab[j] = m.tab[j]
  BY AdmitValue
<1>2. \A j \in Resident(m) :
        /\ m.tab[j].last \in Nat /\ m.tab[j].lit \in Nat
        /\ m.tab[j].last <= now /\ m.tab[j].lit <= m.tab[j].last + span
  BY GroupTimes DEF GroupsBehind
<1>3. GroupsBehind(r, span, t)
  <2>1. ASSUME NEW j \in Resident(r)
        PROVE  r.tab[j].last <= t /\ r.tab[j].lit <= r.tab[j].last + span
    <3>1. CASE j = k
      BY <1>1, <1>2, <3>1
    <3>2. CASE j # k
      BY <1>1, <1>2, <3>2
    <3>3. QED
      BY <3>1, <3>2
  <2>2. QED
    BY <2>1 DEF GroupsBehind
<1>4. ASSUME NEW j \in Keys, NEW f \in Nat, j \notin Resident(m) \ Resident(r),
             Remembered(m, j, f, span, now)
      PROVE  Remembered(r, j, f, span, t)
  <2>1. CASE j = k
    BY <1>1, <1>2, <1>4, <2>1 DEF Remembered
  <2>2. CASE j # k
    BY <1>1, <1>2, <1>4, <2>2 DEF Remembered
  <2>3. QED
    BY <2>1, <2>2
<1>5. QED
  BY <1>3, <1>4

\* Eviction for room, and the fires of the groups that stay.
LEMMA MakeRoomTimes ==
  ASSUME NEW m, OkMap(m), NEW span \in Nat, NEW now \in Nat,
         GroupsBehind(m, span, now)
  PROVE  /\ GroupsBehind(MakeRoom(m), span, now)
         /\ \A j \in Keys, f \in Nat :
              j \notin Resident(m) \ Resident(MakeRoom(m))
              /\ Remembered(m, j, f, span, now)
                => Remembered(MakeRoom(m), j, f, span, now)
<1> DEFINE r == MakeRoom(m)
<1>1. \A j \in Resident(r) : j \in Resident(m) /\ r.tab[j] = m.tab[j]
  BY MakeRoomKeeps
<1> HIDE DEF r
<1>2. GroupsBehind(r, span, now)
  BY <1>1 DEF GroupsBehind
<1>3. ASSUME NEW j \in Keys, NEW f \in Nat, j \notin Resident(m) \ Resident(r),
             Remembered(m, j, f, span, now)
      PROVE  Remembered(r, j, f, span, now)
  BY <1>1, <1>3 DEF Remembered
<1>4. QED
  BY <1>2, <1>3 DEF r

\* A sweep's drop: the fire of the group it forgets is a window old.
LEMMA DropTimes ==
  ASSUME NEW m, OkMap(m), NEW span \in Nat, NEW now \in Nat,
         NEW t \in Nat, t <= now, NEW k \in Expired(m, t - span),
         GroupsBehind(m, span, now)
  PROVE  /\ GroupsBehind(DropGroup(m, k), span, now)
         /\ \A j \in Keys, f \in Nat :
              Remembered(m, j, f, span, now)
                => Remembered(DropGroup(m, k), j, f, span, now)
<1> DEFINE r == DropGroup(m, k)
<1>1. k \in Resident(m) /\ m.tab[k].last < t - span
  BY DEF Expired
<1>2. /\ Resident(r) = Resident(m) \ {k}
      /\ \A j \in Resident(m) \ {k} : r.tab[j] = m.tab[j]
  BY <1>1, DropMap, DropValue
<1>3. m.tab[k].last \in Nat /\ m.tab[k].last + span < now
  BY <1>1, GroupTimes
<1> HIDE DEF r
<1>4. GroupsBehind(r, span, now)
  BY <1>2 DEF GroupsBehind
<1>5. ASSUME NEW j \in Keys, NEW f \in Nat, Remembered(m, j, f, span, now)
      PROVE  Remembered(r, j, f, span, now)
  <2>1. CASE j = k
    <3>1. m.tab[k].last >= f \/ m.tab[k].last >= f + span
      BY <1>1, <1>5, <2>1 DEF Remembered
    <3>2. now >= f + span
      BY <1>3, <3>1
    <3>3. QED
      BY <1>2, <2>1, <3>2 DEF Remembered
  <2>2. CASE j # k
    BY <1>2, <1>5, <2>2 DEF Remembered
  <2>3. QED
    BY <2>1, <2>2
<1>6. QED
  BY <1>4, <1>5 DEF r

\* A fire, by the worker that updated the group.
LEMMA FireTimes ==
  ASSUME NEW m, OkMap(m), NEW k \in Resident(m), NEW span \in Nat, NEW now \in Nat,
         NEW t \in Nat, m.tab[k].last = t,
         NEW r, r = [m EXCEPT !.tab[k].lit = t + span],
         GroupsBehind(m, span, now)
  PROVE  /\ GroupsBehind(r, span, now)
         /\ Remembered(r, k, t, span, now)
         /\ \A j \in Keys \ {k}, f \in Nat :
              Remembered(m, j, f, span, now) => Remembered(r, j, f, span, now)
<1>1. t + span \in Nat
  OBVIOUS
<1>2. Resident(r) = Resident(m)
  <2>1. Resident([m EXCEPT !.tab[k].lit = t + span]) = Resident(m)
    BY <1>1, WriteLitMap
  <2>2. QED
    BY <2>1
<1>3. /\ r.tab[k].lit = t + span /\ r.tab[k].last = t
      /\ \A j \in Resident(m) \ {k} : r.tab[j] = m.tab[j]
  <2>1. ASSUME NEW v \in Nat, r = [m EXCEPT !.tab[k].lit = v]
        PROVE  /\ r.tab[k].lit = v /\ r.tab[k].last = m.tab[k].last
               /\ \A j \in Resident(m) \ {k} : r.tab[j] = m.tab[j]
    BY ONLY OkMap(m), k \in Resident(m), <2>1, WriteLitValue
  <2>2. QED
    BY <1>1, <2>1
<1>4. GroupsBehind(r, span, now)
  BY <1>1, <1>2, <1>3 DEF GroupsBehind
<1>5. Remembered(r, k, t, span, now)
  BY <1>2, <1>3 DEF Remembered
<1>6. ASSUME NEW j \in Keys \ {k}, NEW f \in Nat, Remembered(m, j, f, span, now)
      PROVE  Remembered(r, j, f, span, now)
  BY <1>2, <1>3, <1>6 DEF Remembered
<1>7. QED
  BY <1>4, <1>5, <1>6

-----------------------------------------------------------------------------
\* The history restricts nothing: every step is one of the engine.
LEMMA FiresIsEngine == [NextFires]_<<vars, history>> => [Next]_vars
<1> SUFFICES ASSUME [NextFires]_<<vars, history>> PROVE [Next]_vars
  OBVIOUS
<1>1. CASE NextFires
  BY <1>1 DEF NextFires, SweepStarts, Admits, AdmitFails, Fires, Elsewhere, Next,
              Step, Sweep, Evaluate
<1>2. CASE UNCHANGED <<vars, history>>
  BY <1>2
<1>3. QED
  BY <1>1, <1>2

\* Nothing has fired, and every map is empty.
LEMMA FiresInvInit == InitFires => FiresInv
<1> SUFFICES ASSUME InitFires PROVE FiresInv
  OBVIOUS
<1>1. HistoryTypes
  BY DEF InitFires, HistoryTypes
<1>2. \A c \in Corrs : map[c] = EmptyMap
  BY DEF InitFires, Init
<1>3. Resident(EmptyMap) = {}
  BY EmptyMapOk
<1>4. HeldGroupUpdated /\ SweepBehind
  BY DEF InitFires, Init, HeldGroupUpdated, SweepBehind, At
<1>5. Recency
  BY <1>2, <1>3 DEF Recency
<1>6. \A c \in Corrs : GroupsBehind(map[c], Timespan[c], newest)
  BY <1>2, <1>3 DEF GroupsBehind
<1>7. \A c \in Corrs, k \in Keys : fired[c][k] = Never
  BY DEF InitFires
<1>8. QED
  BY <1>1, <1>4, <1>5, <1>6, <1>7 DEF FiresInv, InOrder

\* What the steps rest on: the types, the locks and the maps.
LEMMA EngineFacts ==
  ASSUME Control, Groups
  PROVE  /\ pc \in [Workers -> {"idle", "sweep", "due", "start", "sweepState",
                                "drop", "walk", "lock", "admit", "eval"}]
         /\ cur \in [Workers -> Corrs] /\ key \in [Workers -> Keys \cup {NoKey}]
         /\ \A w \in Workers : key[w] \in Keys <=> pc[w] \in {"lock", "admit", "eval"}
         /\ ts \in [Workers -> Nat]
         /\ DOMAIN map = Corrs /\ \A c \in Corrs : OkMap(map[c])
         /\ \A c \in Corrs : Timespan[c] \in Nat
<1>1. Time \subseteq Nat
  BY EngineAssumption DEF Time
<1>2. QED
  BY <1>1, EngineAssumption DEF Control, ControlTypes, Groups

\* A step that writes no map, and brings nobody to a group or to a sweep with a
\* time that is not noted.
LEMMA QuietStep ==
  ASSUME Control, Groups, FiresInv,
         UNCHANGED <<map, fired, evicted, touched, disorder>>,
         newest' \in Nat, newest' >= newest,
         \A v \in Workers :
           pc'[v] = "eval" => /\ pc[v] = "eval" /\ cur'[v] = cur[v]
                              /\ key'[v] = key[v] /\ ts'[v] = ts[v],
         \A v \in Workers :
           pc'[v] \in {"sweepState", "drop"} =>
             \/ pc[v] \in {"sweepState", "drop"} /\ ts'[v] = ts[v]
             \/ ts'[v] <= newest'
  PROVE  FiresInv'
<1>1. HistoryTypes'
  BY DEF FiresInv, HistoryTypes
<1>2. HeldGroupUpdated'
  BY DEF FiresInv, HeldGroupUpdated, At
<1>3. Recency'
  BY DEF FiresInv, Recency
<1>4. ASSUME ~disorder' PROVE InOrder'
  <2>1. InOrder /\ newest \in Nat /\ ts \in [Workers -> Nat]
    BY <1>4, EngineFacts DEF FiresInv, HistoryTypes
  <2>2. SweepBehind'
    BY <2>1 DEF InOrder, SweepBehind
  <2>3. ASSUME NEW c \in Corrs
        PROVE  GroupsBehind(map[c], Timespan[c], newest')
    BY <2>1, EngineFacts, MapLater DEF InOrder
  <2>4. ASSUME NEW c \in Corrs, NEW k \in Keys, fired[c][k] # Never, ~evicted[c][k]
        PROVE  Remembered(map[c], k, fired[c][k], Timespan[c], newest')
    <3>1. fired[c][k] \in Nat
      BY <2>4 DEF FiresInv, HistoryTypes
    <3>2. Remembered(map[c], k, fired[c][k], Timespan[c], newest)
      BY <2>1, <2>4 DEF InOrder
    <3>3. QED
      BY <2>1, <3>1, <3>2, EngineFacts, MapLater
  <2>5. QED
    BY <2>2, <2>3, <2>4 DEF InOrder
<1>5. QED
  BY <1>1, <1>2, <1>3, <1>4 DEF FiresInv

\* A step that writes the map of the correlation its worker is inside.  A worker
\* at "eval" is inside its own, so the group it is at is in another map.
LEMMA WriteStep ==
  ASSUME Control, Control', Groups, FiresInv, HistoryTypes',
         NEW w \in Workers, Inside(w, cur[w]),
         NEW m, map' = [map EXCEPT ![cur[w]] = m],
         ts' = ts, newest' >= newest,
         \A v \in Workers \ {w} :
           pc'[v] = pc[v] /\ cur'[v] = cur[v] /\ key'[v] = key[v],
         pc'[w] = "eval" => cur'[w] = cur[w] /\ m.tab[key'[w]].last = ts[w],
         pc'[w] # "sweepState" /\ (pc'[w] = "drop" => pc[w] = "drop"),
         \A c \in Corrs \ {cur[w]} : /\ touched'[c] = touched[c]
                                     /\ fired'[c] = fired[c]
                                     /\ evicted'[c] = evicted[c],
         touched'[cur[w]] \in Resident(m) => EndsIn(m.lru, touched'[cur[w]]),
         disorder => disorder',
         ~disorder' /\ InOrder =>
           /\ GroupsBehind(m, Timespan[cur[w]], newest')
           /\ \A k \in Keys :
                fired'[cur[w]][k] # Never /\ ~evicted'[cur[w]][k] =>
                  Remembered(m, k, fired'[cur[w]][k], Timespan[cur[w]], newest')
  PROVE  FiresInv'
<1> DEFINE c0 == cur[w]
<1>1. /\ c0 \in Corrs /\ ts \in [Workers -> Nat]
      /\ \A c \in Corrs : OkMap(map[c]) /\ Timespan[c] \in Nat
      /\ newest \in Nat /\ newest' \in Nat
  BY EngineFacts DEF FiresInv, HistoryTypes
<1>2. \A c \in Corrs : map'[c] = IF c = c0 THEN m ELSE map[c]
  BY EngineFacts
<1>3. HeldGroupUpdated'
  <2>1. ASSUME NEW v \in Workers, pc'[v] = "eval"
        PROVE  map'[cur'[v]].tab[key'[v]].last = ts'[v]
    <3>1. CASE v = w
      BY <1>1, <1>2, <2>1, <3>1
    <3>2. CASE v # w
      <4>1. pc[v] = "eval" /\ cur'[v] = cur[v] /\ key'[v] = key[v]
        BY <2>1, <3>2
      <4>2. cur[v] \in Corrs /\ Inside(v, cur[v])
        BY <4>1 DEF Control, ControlTypes, Inside
      <4>3. lock[cur[v]] = v /\ lock[cur[w]] = w
        BY <1>1, <4>2 DEF Control, LockHeldExactlyInside
      <4>4. cur[v] # c0
        BY <3>2, <4>3
      <4>5. map'[cur'[v]] = map[cur[v]]
        BY <1>2, <4>1, <4>2, <4>4
      <4>6. map[cur[v]].tab[key[v]].last = ts[v]
        BY <4>1 DEF FiresInv, HeldGroupUpdated, At
      <4>7. QED
        BY <4>1, <4>5, <4>6
    <3>3. QED
      BY <3>1, <3>2
  <2>2. QED
    BY <2>1 DEF HeldGroupUpdated, At
<1>4. Recency'
  <2>1. ASSUME NEW c \in Corrs, touched'[c] \in Resident(map'[c])
        PROVE  EndsIn(map'[c].lru, touched'[c])
    <3>1. CASE c = c0
      BY <1>2, <2>1, <3>1
    <3>2. CASE c # c0
      <4>1. map'[c] = map[c] /\ touched'[c] = touched[c]
        BY <1>2, <3>2
      <4>2. QED
        BY <2>1, <4>1 DEF FiresInv, Recency
    <3>3. QED
      BY <3>1, <3>2
  <2>2. QED
    BY <2>1 DEF Recency
<1>5. ASSUME ~disorder' PROVE InOrder'
  <2>1. InOrder
    BY <1>5 DEF FiresInv
  <2>2. SweepBehind'
    <3>1. ASSUME NEW v \in Workers, pc'[v] \in {"sweepState", "drop"}
          PROVE  ts'[v] <= newest'
      <4>1. pc[v] \in {"sweepState", "drop"}
        BY <3>1
      <4>2. ts[v] <= newest /\ ts[v] \in Nat
        BY <1>1, <2>1, <4>1 DEF InOrder, SweepBehind
      <4>3. QED
        BY <1>1, <4>2
    <3>2. QED
      BY <3>1 DEF SweepBehind
  <2>3. ASSUME NEW c \in Corrs
        PROVE  GroupsBehind(map'[c], Timespan[c], newest')
    <3>1. CASE c = c0
      BY <1>2, <1>5, <2>1, <3>1
    <3>2. CASE c # c0
      <4>1. GroupsBehind(map[c], Timespan[c], newest) /\ map'[c] = map[c]
        BY <1>2, <2>1, <3>2 DEF InOrder
      <4>2. QED
        BY <1>1, <4>1, MapLater
    <3>3. QED
      BY <3>1, <3>2
  <2>4. ASSUME NEW c \in Corrs, NEW k \in Keys, fired'[c][k] # Never, ~evicted'[c][k]
        PROVE  Remembered(map'[c], k, fired'[c][k], Timespan[c], newest')
    <3>1. CASE c = c0
      BY <1>2, <1>5, <2>1, <2>4, <3>1
    <3>2. CASE c # c0
      <4>1. map'[c] = map[c] /\ fired'[c] = fired[c] /\ evicted'[c] = evicted[c]
        BY <1>2, <3>2
      <4>2. fired[c][k] \in Nat
        BY <2>4, <4>1 DEF FiresInv, HistoryTypes
      <4>3. Remembered(map[c], k, fired[c][k], Timespan[c], newest)
        BY <2>1, <2>4, <4>1 DEF InOrder
      <4>4. Remembered(map[c], k, fired[c][k], Timespan[c], newest')
        BY <1>1, <4>2, <4>3, MapLater
      <4>5. QED
        BY <4>1, <4>4
    <3>3. QED
      BY <3>1, <3>2
  <2>5. QED
    BY <2>2, <2>3, <2>4 DEF InOrder
<1>6. QED
  BY <1>3, <1>4, <1>5 DEF FiresInv

\* The four steps that write a map, and the start of a sweep; the rest are quiet.
LEMMA FiresInvNext ==
  Control /\ Control' /\ Groups /\ FiresInv /\ [NextFires]_<<vars, history>>
    => FiresInv'
<1> SUFFICES ASSUME Control, Control', Groups, FiresInv,
                    [NextFires]_<<vars, history>>
             PROVE  FiresInv'
  OBVIOUS
<1> USE DEF At, Goto, engine, walk, target, call, history
<1>1. /\ pc \in [Workers -> {"idle", "sweep", "due", "start", "sweepState",
                             "drop", "walk", "lock", "admit", "eval"}]
      /\ cur \in [Workers -> Corrs] /\ key \in [Workers -> Keys \cup {NoKey}]
      /\ \A w \in Workers : key[w] \in Keys <=> pc[w] \in {"lock", "admit", "eval"}
      /\ ts \in [Workers -> Nat]
      /\ DOMAIN map = Corrs /\ \A c \in Corrs : OkMap(map[c])
      /\ \A c \in Corrs : Timespan[c] \in Nat
  BY EngineFacts
<1>2. HistoryTypes /\ newest \in Nat /\ disorder \in BOOLEAN
  BY DEF FiresInv, HistoryTypes
<1>3. ASSUME NEW w \in Workers, SweepStarts(w) PROVE FiresInv'
  <2>1. newest' \in Nat /\ newest' >= newest /\ ts[w] <= newest'
    BY <1>1, <1>2, <1>3 DEF SweepStarts, NoteTime
  <2>2. /\ UNCHANGED <<map, fired, evicted, touched, disorder, ts>>
        /\ pc' = [pc EXCEPT ![w] = "sweepState"]
        /\ cur' = [cur EXCEPT ![w] = 1] /\ key' = key
    BY <1>3 DEF SweepStarts, SweepStart
  <2>3. \A v \in Workers : pc'[v] = "eval" =>
          pc[v] = "eval" /\ cur'[v] = cur[v] /\ key'[v] = key[v] /\ ts'[v] = ts[v]
    BY <1>1, <2>2
  <2>4. \A v \in Workers : pc'[v] \in {"sweepState", "drop"} =>
          \/ pc[v] \in {"sweepState", "drop"} /\ ts'[v] = ts[v]
          \/ ts'[v] <= newest'
    BY <1>1, <2>1, <2>2
  <2>5. QED
    BY <2>1, <2>2, <2>3, <2>4, QuietStep
<1>4. ASSUME NEW w \in Workers, Admits(w) PROVE FiresInv'
  <2> DEFINE c == cur[w]
             k == key[w]
             r == Admitted(map[c], k, ts[w])
  <2>1. /\ pc[w] = "admit" /\ pc' = [pc EXCEPT ![w] = "eval"]
        /\ UNCHANGED <<cur, key, ts, fired>>
        /\ map' = [map EXCEPT ![c] = r]
        /\ evicted' = [evicted EXCEPT ![c] =
                         [j \in Keys |-> evicted[c][j] \/ j \in Gone(c)]]
        /\ touched' = [touched EXCEPT ![c] = k]
        /\ disorder' = (disorder \/ ts[w] < newest)
        /\ NoteTime(w)
    BY <1>4 DEF Admits, Admit, NoteEvictions, Admitted
  <2>2. c \in Corrs /\ k \in Keys /\ OkMap(map[c]) /\ ts[w] \in Nat /\ Inside(w, c)
    BY <1>1, <2>1 DEF Inside
  <2>3. newest' \in Nat /\ newest' >= newest /\ (ts[w] >= newest => newest' = ts[w])
    BY <1>2, <2>1, <2>2 DEF NoteTime
  <2>4. r.tab[k].last = ts[w] /\ EndsIn(r.lru, k)
    BY <2>2, AdmitValue
  <2> HIDE DEF r
  <2>5. map'[c] = r /\ Gone(c) = Resident(map[c]) \ Resident(r)
    BY <1>1, <2>1, <2>2 DEF Gone
  <2>6. HistoryTypes'
    <3>1. evicted'[c] = [j \in Keys |-> evicted[c][j] \/ j \in Gone(c)]
      BY <1>2, <2>1, <2>2 DEF HistoryTypes
    <3>2. evicted' \in [Corrs -> [Keys -> BOOLEAN]]
      BY <1>2, <2>1, <2>2 DEF HistoryTypes
    <3>3. touched' \in [Corrs -> Keys \cup {NoKey}]
      BY <1>2, <2>1, <2>2 DEF HistoryTypes
    <3>4. disorder' \in BOOLEAN
      BY <2>1
    <3>5. QED
      BY <1>2, <2>1, <2>3, <3>2, <3>3, <3>4 DEF HistoryTypes
  <2>7. touched'[c] = k
    BY <1>2, <2>1, <2>2 DEF HistoryTypes
  <2>8. ASSUME ~disorder', InOrder
        PROVE  /\ GroupsBehind(r, Timespan[c], newest')
               /\ \A j \in Keys :
                    fired'[c][j] # Never /\ ~evicted'[c][j] =>
                      Remembered(r, j, fired'[c][j], Timespan[c], newest')
    <3>1. ts[w] >= newest /\ newest' = ts[w]
      <4>1. ~(ts[w] < newest)
        BY <2>1, <2>8
      <4>2. QED
        BY <1>2, <2>2, <2>3, <4>1
    <3>2. GroupsBehind(map[c], Timespan[c], newest) /\ Timespan[c] \in Nat
      BY <1>1, <2>2, <2>8 DEF InOrder
    <3>3. r = Admitted(map[c], k, ts[w])
      BY DEF r
    <3>4. /\ GroupsBehind(r, Timespan[c], ts[w])
          /\ \A j \in Keys, f \in Nat :
               j \notin Resident(map[c]) \ Resident(r)
               /\ Remembered(map[c], j, f, Timespan[c], newest)
                 => Remembered(r, j, f, Timespan[c], ts[w])
      BY <1>2, <2>2, <3>1, <3>2, <3>3, AdmitTimes
    <3>5. ASSUME NEW j \in Keys, fired'[c][j] # Never, ~evicted'[c][j]
          PROVE  Remembered(r, j, fired'[c][j], Timespan[c], newest')
      <4>1. fired'[c][j] = fired[c][j] /\ fired[c][j] \in Nat
        BY <1>2, <2>1, <2>2, <3>5 DEF HistoryTypes
      <4>2. evicted'[c][j] <=> (evicted[c][j] \/ j \in Gone(c))
        BY <1>2, <2>1, <2>2 DEF HistoryTypes
      <4>3. ~evicted[c][j] /\ j \notin Resident(map[c]) \ Resident(r)
        BY <2>5, <3>5, <4>2
      <4>4. Remembered(map[c], j, fired[c][j], Timespan[c], newest)
        BY <2>2, <2>8, <3>5, <4>1, <4>3 DEF InOrder
      <4>5. QED
        BY <3>1, <3>4, <4>1, <4>3, <4>4
    <3>6. QED
      BY <3>1, <3>4, <3>5
  <2>9. \A b \in Corrs \ {c} : /\ touched'[b] = touched[b] /\ fired'[b] = fired[b]
                               /\ evicted'[b] = evicted[b]
    BY <1>2, <2>1, <2>2 DEF HistoryTypes
  <2>10. \A v \in Workers \ {w} : pc'[v] = pc[v] /\ cur'[v] = cur[v] /\ key'[v] = key[v]
    BY <1>1, <2>1
  <2>11. pc'[w] = "eval" /\ cur'[w] = c /\ key'[w] = k
    BY <1>1, <2>1
  <2>12. disorder => disorder'
    BY <2>1
  <2>13. QED
    BY <2>1, <2>2, <2>3, <2>4, <2>6, <2>7, <2>8, <2>9, <2>10, <2>11, <2>12, WriteStep
<1>5. ASSUME NEW w \in Workers, AdmitFails(w) PROVE FiresInv'
  <2> DEFINE c == cur[w]
             m == map[c]
             r == MakeRoom(m)
  <2>1. /\ pc[w] = "admit" /\ pc' = [pc EXCEPT ![w] = "walk"]
        /\ cur' = [cur EXCEPT ![w] = 1] /\ key' = [key EXCEPT ![w] = NoKey]
        /\ UNCHANGED <<ts, fired, touched, newest, disorder>>
        /\ map' = [map EXCEPT ![c] = r]
        /\ evicted' = [evicted EXCEPT ![c] =
                         [j \in Keys |-> evicted[c][j] \/ j \in Gone(c)]]
    BY <1>5 DEF AdmitFails, AdmitOom, Unlock, NoteEvictions
  <2>2. c \in Corrs /\ OkMap(m) /\ Inside(w, c)
    BY <1>1, <2>1 DEF Inside
  <2> HIDE DEF r
  <2>3. map'[c] = r /\ Gone(c) = Resident(m) \ Resident(r)
    BY <1>1, <2>1, <2>2 DEF Gone
  <2>4. HistoryTypes'
    <3>1. evicted' \in [Corrs -> [Keys -> BOOLEAN]]
      BY <1>2, <2>1, <2>2 DEF HistoryTypes
    <3>2. QED
      BY <1>2, <2>1, <3>1 DEF HistoryTypes
  <2>5. touched'[c] \in Resident(r) => EndsIn(r.lru, touched'[c])
    <3>1. ASSUME touched[c] \in Resident(r) PROVE EndsIn(r.lru, touched[c])
      <4>1. touched[c] \in Resident(m)
        BY <2>2, <3>1, MakeRoomKeeps DEF r
      <4>2. EndsIn(m.lru, touched[c])
        BY <2>2, <4>1 DEF FiresInv, Recency
      <4>3. QED
        BY <2>2, <3>1, <4>2, MakeRoomKeeps DEF r
    <3>2. QED
      BY <2>1, <3>1
  <2>6. ASSUME ~disorder', InOrder
        PROVE  /\ GroupsBehind(r, Timespan[c], newest')
               /\ \A j \in Keys :
                    fired'[c][j] # Never /\ ~evicted'[c][j] =>
                      Remembered(r, j, fired'[c][j], Timespan[c], newest')
    <3>1. GroupsBehind(m, Timespan[c], newest) /\ Timespan[c] \in Nat
      BY <1>1, <2>2, <2>6 DEF InOrder
    <3>2. /\ GroupsBehind(r, Timespan[c], newest)
          /\ \A j \in Keys, f \in Nat :
               j \notin Resident(m) \ Resident(r)
               /\ Remembered(m, j, f, Timespan[c], newest)
                 => Remembered(r, j, f, Timespan[c], newest)
      BY <1>2, <2>2, <3>1, MakeRoomTimes DEF r
    <3>3. ASSUME NEW j \in Keys, fired'[c][j] # Never, ~evicted'[c][j]
          PROVE  Remembered(r, j, fired'[c][j], Timespan[c], newest')
      <4>1. fired'[c][j] = fired[c][j] /\ fired[c][j] \in Nat
        BY <1>2, <2>1, <2>2, <3>3 DEF HistoryTypes
      <4>2. evicted'[c][j] <=> (evicted[c][j] \/ j \in Gone(c))
        BY <1>2, <2>1, <2>2 DEF HistoryTypes
      <4>3. ~evicted[c][j] /\ j \notin Resident(m) \ Resident(r)
        BY <2>3, <3>3, <4>2
      <4>4. Remembered(m, j, fired[c][j], Timespan[c], newest)
        BY <2>2, <2>6, <3>3, <4>1, <4>3 DEF InOrder
      <4>5. QED
        BY <2>1, <3>2, <4>1, <4>3, <4>4
    <3>4. QED
      BY <2>1, <3>2, <3>3
  <2>7. \A b \in Corrs \ {c} : /\ touched'[b] = touched[b] /\ fired'[b] = fired[b]
                               /\ evicted'[b] = evicted[b]
    BY <1>2, <2>1, <2>2 DEF HistoryTypes
  <2>8. \A v \in Workers \ {w} : pc'[v] = pc[v] /\ cur'[v] = cur[v] /\ key'[v] = key[v]
    BY <1>1, <2>1
  <2>9. pc'[w] = "walk" /\ newest' >= newest
    BY <1>1, <1>2, <2>1
  <2>10. QED
    BY <2>1, <2>2, <2>4, <2>5, <2>6, <2>7, <2>8, <2>9, WriteStep
<1>6. ASSUME NEW w \in Workers, Fires(w) PROVE FiresInv'
  <2> DEFINE c == cur[w]
             k == key[w]
             m == map[c]
             until == ts[w] + Timespan[c]
             r == [m EXCEPT !.tab[k].lit = until]
  <2>1. /\ pc[w] = "eval" /\ pc' = [pc EXCEPT ![w] = "walk"]
        /\ cur' = [cur EXCEPT ![w] = 1] /\ key' = [key EXCEPT ![w] = NoKey]
        /\ UNCHANGED <<ts, touched, newest, disorder>>
        /\ map' = [map EXCEPT ![c] = r]
        /\ fired' = [fired EXCEPT ![c][k] = ts[w]]
        /\ evicted' = [evicted EXCEPT ![c][k] = FALSE]
    BY <1>6 DEF Fires, Fire, Unlock
  <2>2. /\ c \in Corrs /\ k \in Keys /\ OkMap(m) /\ Inside(w, c)
        /\ ts[w] \in Nat /\ Timespan[c] \in Nat /\ until \in Nat
    BY <1>1, <2>1 DEF Inside
  <2>3. k \in Resident(m) /\ m.tab[k].last = ts[w]
    BY <2>1 DEF Groups, HeldGroupResident, FiresInv, HeldGroupUpdated
  <2> HIDE DEF m
  <2>4. Resident(r) = Resident(m)
    BY <2>2, <2>3, WriteLitMap
  <2>5. r.lru = m.lru
    BY <2>2, <2>3, WriteLitValue
  <2> HIDE DEF r
  <2>6. HistoryTypes'
    <3>1. fired' \in [Corrs -> [Keys -> Nat \cup {Never}]]
      BY <1>2, <2>1, <2>2 DEF HistoryTypes
    <3>2. evicted' \in [Corrs -> [Keys -> BOOLEAN]]
      BY <1>2, <2>1, <2>2 DEF HistoryTypes
    <3>3. QED
      BY <1>2, <2>1, <3>1, <3>2 DEF HistoryTypes
  <2>7. touched'[c] \in Resident(r) => EndsIn(r.lru, touched'[c])
    BY <2>1, <2>2, <2>4, <2>5 DEF FiresInv, Recency, m
  <2>8. ASSUME ~disorder', InOrder
        PROVE  /\ GroupsBehind(r, Timespan[c], newest')
               /\ \A j \in Keys :
                    fired'[c][j] # Never /\ ~evicted'[c][j] =>
                      Remembered(r, j, fired'[c][j], Timespan[c], newest')
    <3>1. GroupsBehind(m, Timespan[c], newest)
      BY <2>2, <2>8 DEF InOrder, m
    <3>2. r = [m EXCEPT !.tab[k].lit = ts[w] + Timespan[c]]
      BY DEF r
    <3>3. /\ GroupsBehind(r, Timespan[c], newest)
          /\ Remembered(r, k, ts[w], Timespan[c], newest)
          /\ \A j \in Keys \ {k}, f \in Nat :
               Remembered(m, j, f, Timespan[c], newest)
                 => Remembered(r, j, f, Timespan[c], newest)
      BY <1>2, <2>2, <2>3, <3>1, <3>2, FireTimes
    <3>4. ASSUME NEW j \in Keys, fired'[c][j] # Never, ~evicted'[c][j]
          PROVE  Remembered(r, j, fired'[c][j], Timespan[c], newest')
      <4>1. CASE j = k
        <5>1. fired'[c][k] = ts[w]
          BY <1>2, <2>1, <2>2 DEF HistoryTypes
        <5>2. QED
          BY <2>1, <3>3, <4>1, <5>1
      <4>2. CASE j # k
        <5>1. /\ fired'[c][j] = fired[c][j] /\ evicted'[c][j] = evicted[c][j]
              /\ fired[c][j] \in Nat
          BY <1>2, <2>1, <2>2, <3>4, <4>2 DEF HistoryTypes
        <5>2. Remembered(m, j, fired[c][j], Timespan[c], newest)
          BY <2>2, <2>8, <3>4, <5>1 DEF InOrder, m
        <5>3. QED
          BY <2>1, <3>3, <4>2, <5>1, <5>2
      <4>3. QED
        BY <4>1, <4>2
    <3>5. QED
      BY <2>1, <3>3, <3>4
  <2>9. \A b \in Corrs \ {c} : /\ touched'[b] = touched[b] /\ fired'[b] = fired[b]
                               /\ evicted'[b] = evicted[b]
    BY <1>2, <2>1, <2>2 DEF HistoryTypes
  <2>10. \A v \in Workers \ {w} : pc'[v] = pc[v] /\ cur'[v] = cur[v] /\ key'[v] = key[v]
    BY <1>1, <2>1
  <2>11. pc'[w] = "walk" /\ newest' >= newest
    BY <1>1, <1>2, <2>1
  <2>12. QED
    BY <2>1, <2>2, <2>6, <2>7, <2>8, <2>9, <2>10, <2>11, WriteStep
<1>7. ASSUME NEW w \in Workers, SweepDrop(w), UNCHANGED history PROVE FiresInv'
  <2> DEFINE c == cur[w]
             m == map[c]
  <2>1. PICK k \in Expired(m, Horizon(w)) :
          map' = [map EXCEPT ![c] = DropGroup(m, k)]
    BY <1>7 DEF SweepDrop
  <2> DEFINE r == DropGroup(m, k)
  <2>2. pc[w] = "drop" /\ UNCHANGED <<pc, cur, key, ts>>
    BY <1>7 DEF SweepDrop
  <2>3. /\ c \in Corrs /\ OkMap(m) /\ Inside(w, c) /\ k \in Resident(m)
        /\ ts[w] \in Nat /\ Timespan[c] \in Nat
    BY <1>1, <2>1, <2>2 DEF Inside, Expired
  <2>4. touched'[c] \in Resident(r) => EndsIn(r.lru, touched'[c])
    <3>1. ASSUME touched[c] \in Resident(r) PROVE EndsIn(r.lru, touched[c])
      <4>1. touched[c] \in Resident(m) /\ touched[c] # k
        BY <2>3, <3>1, DropMap
      <4>2. EndsIn(m.lru, touched[c])
        BY <2>3, <4>1 DEF FiresInv, Recency
      <4>3. QED
        BY <2>3, <4>1, <4>2, DropValue
    <3>2. QED
      BY <1>7, <3>1
  <2>5. ASSUME ~disorder', InOrder
        PROVE  /\ GroupsBehind(r, Timespan[c], newest')
               /\ \A j \in Keys :
                    fired'[c][j] # Never /\ ~evicted'[c][j] =>
                      Remembered(r, j, fired'[c][j], Timespan[c], newest')
    <3>1. GroupsBehind(m, Timespan[c], newest) /\ ts[w] <= newest
      BY <2>2, <2>3, <2>5 DEF InOrder, SweepBehind
    <3>2. k \in Expired(m, ts[w] - Timespan[c])
      BY <2>1 DEF Horizon
    <3>3. /\ GroupsBehind(r, Timespan[c], newest)
          /\ \A j \in Keys, f \in Nat :
               Remembered(m, j, f, Timespan[c], newest)
                 => Remembered(r, j, f, Timespan[c], newest)
      BY <1>2, <2>3, <3>1, <3>2, DropTimes
    <3>4. ASSUME NEW j \in Keys, fired'[c][j] # Never, ~evicted'[c][j]
          PROVE  Remembered(r, j, fired'[c][j], Timespan[c], newest')
      <4>1. fired'[c][j] = fired[c][j] /\ fired[c][j] \in Nat /\ newest' = newest
        BY <1>2, <1>7, <2>3, <3>4 DEF HistoryTypes
      <4>2. Remembered(m, j, fired[c][j], Timespan[c], newest)
        BY <1>7, <2>3, <2>5, <3>4 DEF InOrder
      <4>3. QED
        BY <3>3, <4>1, <4>2
    <3>5. QED
      BY <1>7, <3>3, <3>4
  <2>6. HistoryTypes' /\ newest' >= newest /\ disorder' = disorder
    BY <1>2, <1>7 DEF HistoryTypes
  <2>7. \A b \in Corrs \ {c} : /\ touched'[b] = touched[b] /\ fired'[b] = fired[b]
                               /\ evicted'[b] = evicted[b]
    BY <1>7
  <2>8. map' = [map EXCEPT ![c] = r] /\ pc'[w] = "drop" /\ ts' = ts
    BY <2>1, <2>2
  <2>9. \A v \in Workers \ {w} : pc'[v] = pc[v] /\ cur'[v] = cur[v] /\ key'[v] = key[v]
    BY <2>2
  <2> HIDE DEF r
  <2>10. QED
    BY <2>2, <2>3, <2>4, <2>5, <2>6, <2>7, <2>8, <2>9, WriteStep
\* The steps that write no map.
<1>8. ASSUME UNCHANGED <<map, fired, evicted, touched, newest, disorder>>,
             NEW w \in Workers,
             \A v \in Workers \ {w} :
               pc'[v] = pc[v] /\ cur'[v] = cur[v] /\ key'[v] = key[v] /\ ts'[v] = ts[v],
             pc'[w] # "eval",
             pc'[w] \in {"sweepState", "drop"} =>
               pc[w] \in {"sweepState", "drop"} /\ ts'[w] = ts[w]
      PROVE  FiresInv'
  BY <1>2, <1>8, QuietStep
<1>9. ASSUME NEW w \in Workers, OnEvent(w) \/ OnContribution(w), UNCHANGED history
      PROVE  FiresInv'
  BY <1>1, <1>8, <1>9 DEF OnEvent, OnContribution, Enter
<1>10. ASSUME NEW w \in Workers, UNCHANGED history,
              SweepBusy(w) \/ SweepTrylock(w) \/ SweepFirst(w) \/ SweepNotDue(w)
              \/ SweepDue(w) \/ SweepLock(w)
       PROVE  FiresInv'
  BY <1>1, <1>8, <1>10 DEF SweepBusy, SweepTrylock, SweepFirst, SweepNotDue,
                           SweepDue, SweepLock
<1>11. ASSUME NEW w \in Workers, UNCHANGED history, SweepNext(w) PROVE FiresInv'
  BY <1>1, <1>8, <1>11 DEF SweepNext
<1>12. ASSUME NEW w \in Workers, UNCHANGED history, WalkOom(w) \/ Return(w)
       PROVE  FiresInv'
  BY <1>1, <1>8, <1>12 DEF WalkOom, Return, Leave
<1>13. ASSUME NEW w \in Workers, UNCHANGED history,
              NextRid(w) \/ AlreadyVisited(w) \/ SkipCorrelation(w) \/ Resolve(w)
       PROVE  FiresInv'
  BY <1>1, <1>8, <1>13 DEF NextRid, AlreadyVisited, SkipCorrelation, Resolve, Visit
<1>14. ASSUME NEW w \in Workers, UNCHANGED history, Lock(w) PROVE FiresInv'
  BY <1>1, <1>8, <1>14 DEF Lock
<1>15. ASSUME NEW w \in Workers, UNCHANGED history, NoFire(w) \/ Suppress(w)
       PROVE  FiresInv'
  BY <1>1, <1>8, <1>15 DEF NoFire, Suppress, Unlock
<1>16. CASE UNCHANGED <<vars, history>>
  BY <1>2, <1>16, QuietStep DEF vars
<1>17. QED
  BY <1>3, <1>4, <1>5, <1>6, <1>7, <1>9, <1>10, <1>11, <1>12, <1>13, <1>14, <1>15,
     <1>16 DEF NextFires, Elsewhere, Walk, Finished

-----------------------------------------------------------------------------
\* The invariants of the engine and of its history, in every execution.
LEMMA FiresInvariant == SpecFires => [](Control /\ Groups /\ FiresInv)
<1>1. InitFires => Control /\ Groups /\ FiresInv
  BY ControlInit, GroupsInit, FiresInvInit DEF InitFires
<1>2. (Control /\ Groups /\ FiresInv) /\ [NextFires]_<<vars, history>>
        => (Control /\ Groups /\ FiresInv)'
  BY FiresIsEngine, ControlNext, GroupsNext, FiresInvNext
<1>3. QED
  BY <1>1, <1>2, PTL DEF SpecFires

\* Re-fire suppression (grp->fired_until) holds across sweep, eviction and
\* re-creation of groups: two fires of one group are a window apart, unless in
\* between it was evicted for room or a group was updated out of order.
THEOREM FiresStaySpaced == SpecFires => FiresSpaced
<1> DEFINE Spaced ==
      \A w \in Workers :
        Fire(w) /\ LastFire(w) # Never =>
          \/ ts[w] >= LastFire(w) + Timespan[cur[w]]
          \/ evicted[cur[w]][key[w]]
          \/ disorder
<1>1. Control /\ Groups /\ FiresInv => Spaced
  <2> SUFFICES ASSUME Control, Groups, FiresInv, NEW w \in Workers, Fire(w),
                      LastFire(w) # Never, ~evicted[cur[w]][key[w]], ~disorder
               PROVE  ts[w] >= LastFire(w) + Timespan[cur[w]]
    OBVIOUS
  <2> DEFINE c == cur[w]
             k == key[w]
  <2>1. pc[w] = "eval" /\ ts[w] >= map[c].tab[k].lit
    BY DEF Fire, At, FiredUntil
  <2>2. c \in Corrs /\ k \in Keys /\ ts[w] \in Nat /\ Timespan[c] \in Nat
    BY <2>1, EngineFacts
  <2>3. k \in Resident(map[c]) /\ map[c].tab[k].last = ts[w]
    BY <2>1 DEF Groups, HeldGroupResident, FiresInv, HeldGroupUpdated, At
  <2>4. Remembered(map[c], k, fired[c][k], Timespan[c], newest)
    BY <2>2 DEF FiresInv, InOrder, LastFire
  <2>5. \/ map[c].tab[k].lit = fired[c][k] + Timespan[c]
        \/ ts[w] >= fired[c][k] + Timespan[c]
    BY <2>3, <2>4 DEF Remembered
  <2>6. QED
    BY <2>1, <2>5 DEF LastFire
<1>2. QED
  BY <1>1, FiresInvariant, PTL DEF FiresSpaced

\* cstate_drop_expired forgets a group only after its window, and so never while
\* it is lit, as long as groups are updated in timestamp order.
THEOREM SweepsSpareLit == SpecFires => SweepSparesLit
<1> DEFINE Spares ==
      \A w \in Workers :
        SweepDrop(w) /\ ~disorder =>
          \A k \in Gone(cur[w]) : map[cur[w]].tab[k].lit < ts[w]
<1>1. Control /\ Groups /\ FiresInv => Spares
  <2> SUFFICES ASSUME Control, Groups, FiresInv, NEW w \in Workers, SweepDrop(w),
                      ~disorder, NEW k \in Gone(cur[w])
               PROVE  map[cur[w]].tab[k].lit < ts[w]
    OBVIOUS
  <2> DEFINE c == cur[w]
             m == map[c]
  <2>1. PICK j \in Expired(m, Horizon(w)) :
          map' = [map EXCEPT ![c] = DropGroup(m, j)]
    BY DEF SweepDrop
  <2>2. /\ c \in Corrs /\ OkMap(m) /\ ts[w] \in Nat /\ Timespan[c] \in Nat
        /\ DOMAIN map = Corrs
    BY EngineFacts
  <2>3. j \in Resident(m) /\ m.tab[j].last < ts[w] - Timespan[c]
    BY <2>1 DEF Expired, Horizon
  <2>4. Resident(map'[c]) = Resident(m) \ {j}
    BY <2>1, <2>2, <2>3, DropMap
  <2>5. k = j
    BY <2>4 DEF Gone
  <2>6. m.tab[j].lit <= m.tab[j].last + Timespan[c]
    BY <2>2, <2>3 DEF FiresInv, InOrder, GroupsBehind
  <2>7. m.tab[j].lit \in Nat /\ m.tab[j].last \in Nat
    BY <2>2, <2>3, GroupTimes
  <2>8. QED
    BY <2>2, <2>3, <2>5, <2>6, <2>7
<1>2. QED
  BY <1>1, FiresInvariant, PTL DEF SweepSparesLit

\* cstate_get_or_create evicts the least recently used group: the one used last
\* leaves only when it expires, or when the map holds a single group.
THEOREM RecentGroupsSurvive == SpecFires => RecentGroupSurvives
<1> DEFINE Survives ==
      \A c \in Corrs :
        touched[c] \in Gone(c) =>
          MaxGroups = 1 \/ \E w \in Workers : Inside(w, c) /\ At(w, "drop")
<1>1. Control /\ Groups /\ FiresInv /\ [NextFires]_<<vars, history>>
        => [Survives]_<<vars, history>>
  <2> SUFFICES ASSUME Control, Groups, FiresInv, [Next]_vars,
                      NEW c \in Corrs, touched[c] \in Gone(c)
               PROVE  MaxGroups = 1 \/ \E w \in Workers : Inside(w, c) /\ At(w, "drop")
    BY FiresIsEngine
  <2> DEFINE e == touched[c]
             m == map[c]
  <2>1. /\ OkMap(m) /\ DOMAIN map = Corrs
        /\ cur \in [Workers -> Corrs] /\ ts \in [Workers -> Nat]
        /\ \A w \in Workers : key[w] \in Keys <=> pc[w] \in {"lock", "admit", "eval"}
    BY EngineFacts
  <2>2. e \in Resident(m) /\ e \notin Resident(map'[c])
    BY DEF Gone
  <2>3. EndsIn(m.lru, e)
    BY <2>2 DEF FiresInv, Recency
  <2>4. map' # map
    BY <2>2
  \* A write to another correlation's map is none to this one.
  <2>5. ASSUME NEW w \in Workers, NEW r, map' = [map EXCEPT ![cur[w]] = r]
        PROVE  c = cur[w] /\ map'[c] = r
    BY <2>1, <2>2, <2>5
  <2>6. ASSUME NEW w \in Workers, SweepDrop(w)
        PROVE  Inside(w, c) /\ At(w, "drop")
    <3>1. PICK k \in Expired(map[cur[w]], Horizon(w)) :
            map' = [map EXCEPT ![cur[w]] = DropGroup(map[cur[w]], k)]
      BY <2>6 DEF SweepDrop
    <3>2. QED
      BY <2>5, <2>6, <3>1 DEF SweepDrop, Inside, At
  <2>7. ASSUME NEW w \in Workers, Admit(w)
        PROVE  MaxGroups = 1
    <3>1. /\ map' = [map EXCEPT ![cur[w]] = Admitted(map[cur[w]], key[w], ts[w])]
          /\ key[w] \in Keys /\ ts[w] \in Nat
      BY <2>1, <2>7 DEF Admit, Admitted, At
    <3>2. c = cur[w] /\ map'[c] = Admitted(m, key[w], ts[w])
      BY <2>5, <3>1
    <3>3. Resident(map'[c]) =
            (IF key[w] \in Resident(m) THEN Resident(m) ELSE Resident(MakeRoom(m)))
              \cup {key[w]}
      BY <2>1, <3>1, <3>2, AdmitValue
    <3>4. e \notin Resident(MakeRoom(m))
      BY <2>2, <3>3
    <3>5. QED
      BY <2>1, <2>2, <2>3, <3>4, MakeRoomSparesEnd
  <2>8. ASSUME NEW w \in Workers, AdmitOom(w)
        PROVE  MaxGroups = 1
    <3>1. map' = [map EXCEPT ![cur[w]] = MakeRoom(map[cur[w]])]
      BY <2>8 DEF AdmitOom
    <3>2. c = cur[w] /\ map'[c] = MakeRoom(m)
      BY <2>5, <3>1
    <3>3. QED
      BY <2>1, <2>2, <2>3, <3>2, MakeRoomSparesEnd
  <2>9. ASSUME NEW w \in Workers, Fire(w)
        PROVE  FALSE
    <3> DEFINE k == key[w]
               until == ts[w] + Timespan[cur[w]]
    <3>1. map' = [map EXCEPT ![cur[w]] = [map[cur[w]] EXCEPT !.tab[k].lit = until]]
      BY <2>9 DEF Fire
    <3>2. pc[w] = "eval" /\ until \in Nat
      BY <2>1, <2>9, EngineFacts DEF Fire, At
    <3> HIDE DEF until
    <3>3. c = cur[w] /\ map'[c] = [m EXCEPT !.tab[k].lit = until]
      BY <2>5, <3>1
    <3>4. k \in Resident(m)
      BY <3>2, <3>3 DEF Groups, HeldGroupResident, At
    <3>5. Resident([m EXCEPT !.tab[k].lit = until]) = Resident(m)
      BY <2>1, <3>2, <3>4, WriteLitMap
    <3>6. QED
      BY <2>2, <3>3, <3>5
  <2> USE DEF engine, walk, target, call
  <2>10. ASSUME NEW w \in Workers, Sweep(w), ~SweepDrop(w) PROVE map' = map
    BY <2>10 DEF Sweep, SweepBusy, SweepTrylock, SweepFirst, SweepNotDue, SweepDue,
                 SweepStart, SweepLock, SweepNext
  <2>11. ASSUME NEW w \in Workers, Walk(w) PROVE map' = map
    BY <2>11 DEF Walk, WalkOom, NextRid, AlreadyVisited, SkipCorrelation, Resolve,
                 Return, Leave
  <2>12. ASSUME NEW w \in Workers, Lock(w) \/ NoFire(w) \/ Suppress(w) PROVE map' = map
    BY <2>12 DEF Lock, NoFire, Suppress
  <2>13. ASSUME NEW w \in Workers, OnEvent(w) \/ OnContribution(w) PROVE map' = map
    BY <2>13 DEF OnEvent, OnContribution, Enter
  <2>14. QED
    BY <2>4, <2>6, <2>7, <2>8, <2>9, <2>10, <2>11, <2>12, <2>13
       DEF Next, Step, Evaluate, Finished, vars
<1>2. QED
  BY <1>1, FiresInvariant, PTL DEF RecentGroupSurvives, SpecFires
=============================================================================
