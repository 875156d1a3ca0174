-------------------------- MODULE SigmaMatchProofs --------------------------
(***************************************************************************)
(* Proofs about SigmaMatch, for every set of artifacts and events and      *)
(* every width of the generation counter: the matcher implements           *)
(* SigmaSpec, whatever its scratch keeps of older events.                  *)
(*                                                                         *)
(* The literal scan comes first, for every set of needles of at least two  *)
(* bytes and every text: one position, then a text, then the fields of an  *)
(* event.  Then come the scratch of the matcher, its types, the needles    *)
(* and the candidates of an event; the meaning of a rule; the rules an     *)
(* event concerns; what an evaluation reports; and the steps of SigmaSpec. *)
(***************************************************************************)
EXTENDS SigmaMatch, FoldProofs

-----------------------------------------------------------------------------
(***************************************************************************)
(* The literal prefilter.                                                  *)
(***************************************************************************)

\* The compared bytes of a needle that starts at p.
LEMMA StartsAtBytes ==
  ASSUME NEW hay \in Seq(Byte), NEW p \in DOMAIN hay, NEW n \in Seq(Byte),
         StartsAt(hay, p, n)
  PROVE  /\ p + Len(n) - 1 <= Len(hay)
         /\ \A i \in 1 .. Len(n) : LowerCase(hay[p + i - 1]) = LowerCase(n[i])
<1>. DEFINE q == p + Len(n) - 1
            v == SubSeq(hay, p, q)
<1>1. q <= Len(hay) /\ SameWord(v, n)
  BY DEF StartsAt
<1>2. p \in 1 .. Len(hay) /\ Len(n) \in Nat /\ Len(hay) \in Nat
  OBVIOUS
<1>3. ASSUME NEW i \in 1 .. Len(n)
      PROVE  LowerCase(hay[p + i - 1]) = LowerCase(n[i])
  <2>1. i \in 1 .. (q + 1 - p)
    BY <1>2
  <2>2. v[i] = hay[p + i - 1]
    BY <1>1, <1>2, <2>1, SubSeqProperties
  <2>3. DOMAIN v = DOMAIN n
    BY <1>1, <1>2, SubSeqProperties DEF SameWord
  <2>4. i \in DOMAIN v
    BY <2>3
  <2>5. LowerCase(v[i]) = LowerCase(n[i])
    BY <1>1, <2>4 DEF SameWord
  <2>. QED BY <2>2, <2>5
<1>. QED BY <1>1, <1>3

\* Folding the case of a byte and taking both cases gives the byte back.
LEMMA BothCases ==
  ASSUME NEW c \in Byte
  PROVE  c \in {LowerCase(c), UpperCase(LowerCase(c))}
BY DEF Byte, LowerCase, UpperCase

\* A chunk of the text holds each of its positions.
LEMMA ChunkHolds ==
  ASSUME NEW p \in Nat \ {0}
  PROVE  LET s == p - ((p - 1) % Chunk) IN p \in s .. s + Chunk - 1
<1>1. Chunk \in Nat \ {0}
  BY TeddyAssumption DEF TeddyAssumption
<1>2. (p - 1) % Chunk \in 0 .. Chunk - 1
  BY <1>1
<1>3. (p - 1) % Chunk \in Int
  BY <1>2
<1>. QED BY <1>1, <1>2, <1>3

\* teddy_chunk_interesting: the chunk in which a needle starts is not skipped.
LEMMA StartIsSwept ==
  ASSUME NEW needles, NEW ids, NEW k \in ids,
         needles[k] \in Seq(Byte), Len(needles[k]) >= 1,
         NEW hay \in Seq(Byte), NEW p \in DOMAIN hay,
         StartsAt(hay, p, needles[k])
  PROVE  Swept(TeddyBuild(needles, ids), hay, p)
<1>. DEFINE t == TeddyBuild(needles, ids)
            c == LowerCase(needles[k][1])
            s == p - ((p - 1) % Chunk)
<1>1. LowerCase(hay[p]) = c
  <2>1. LowerCase(hay[p + 1 - 1]) = c
    BY StartsAtBytes
  <2>. QED BY <2>1
<1>2. hay[p] \in {c, UpperCase(c)}
  <2>1. hay[p] \in Byte
    OBVIOUS
  <2>. QED BY <1>1, <2>1, BothCases
<1>3. hay[p] \in FirstBytes(needles, ids)
  BY <1>2 DEF FirstBytes
<1>4. hay[p] % 16 \in t.lo /\ hay[p] \div 16 \in t.hi
  BY <1>3 DEF TeddyBuild
<1>5. p \in s .. s + Chunk - 1
  BY ChunkHolds
<1>. HIDE DEF s, t
<1>6. \E i \in s .. s + Chunk - 1 : hay[i] % 16 \in t.lo /\ hay[i] \div 16 \in t.hi
  BY <1>4, <1>5
<1>. QED BY <1>6 DEF Swept, s, t

\* A hash is an index of the table.
LEMMA KeysInTable ==
  ASSUME NEW w \in Seq(Byte), NEW p \in 1 .. Len(w), p + 1 <= Len(w)
  PROVE  /\ Key2(w, p) \in 0 .. HashSize - 1
         /\ p + 2 <= Len(w) => Key3(w, p) \in 0 .. HashSize - 1
<1>1. HashSize \in Nat \ {0}
  BY TeddyAssumption DEF TeddyAssumption
<1>2. \A x \in Int : x % HashSize \in 0 .. HashSize - 1
  BY <1>1
<1>3. \A i \in 1 .. Len(w) : LowerCase(w[i]) \in Int
  <2>1. \A c \in Byte : LowerCase(c) \in Int
    BY DEF LowerCase, Byte
  <2>2. \A i \in 1 .. Len(w) : w[i] \in Byte
    OBVIOUS
  <2>. QED BY <2>1, <2>2
<1>4. p \in 1 .. Len(w) /\ p + 1 \in 1 .. Len(w)
  OBVIOUS
<1>5. LowerCase(w[p]) + 256 * LowerCase(w[p + 1]) \in Int
  BY <1>3, <1>4
<1>6. ASSUME p + 2 <= Len(w)
      PROVE  Key3(w, p) \in 0 .. HashSize - 1
  <2>1. LowerCase(w[p + 2]) \in Int
    BY <1>3, <1>4, <1>6
  <2>2. LowerCase(w[p]) + 256 * LowerCase(w[p + 1]) + 65536 * LowerCase(w[p + 2]) \in Int
    BY <1>5, <2>1
  <2>. QED BY <1>2, <2>2 DEF Key3
<1>. QED BY <1>2, <1>5, <1>6 DEF Key2

\* teddy_hash: a needle is on the chain that the text hashes to where it starts.
LEMMA StartIsChained ==
  ASSUME NEW needles, NEW ids, NEW k \in ids,
         needles[k] \in Seq(Byte), Len(needles[k]) >= 2,
         NEW hay \in Seq(Byte), NEW p \in DOMAIN hay,
         StartsAt(hay, p, needles[k])
  PROVE  k \in Chained(TeddyBuild(needles, ids), hay, p)
<1>. DEFINE n == needles[k]
<1>1. /\ p + Len(n) - 1 <= Len(hay)
      /\ \A i \in 1 .. Len(n) : LowerCase(hay[p + i - 1]) = LowerCase(n[i])
  BY StartsAtBytes
<1>2. p \in Nat \ {0} /\ Len(n) \in Nat /\ Len(hay) \in Nat
  OBVIOUS
<1>3. LowerCase(hay[p]) = LowerCase(n[1]) /\ LowerCase(hay[p + 1]) = LowerCase(n[2])
  <2>1. LowerCase(hay[p + 1 - 1]) = LowerCase(n[1])
    BY <1>1, <1>2
  <2>2. LowerCase(hay[p + 2 - 1]) = LowerCase(n[2])
    BY <1>1, <1>2
  <2>3. p + 1 - 1 = p /\ p + 2 - 1 = p + 1
    BY <1>2
  <2>. QED BY <2>1, <2>2, <2>3
<1>4. CASE Len(n) < 3
  <2>1. Key2(hay, p) = Key2(n, 1)
    BY <1>3 DEF Key2
  <2>2. k \in ShortChain(needles, ids, Key2(hay, p))
    BY <1>4, <2>1 DEF ShortChain
  <2>3. Key2(hay, p) \in 0 .. HashSize - 1
    BY <1>1, <1>2, KeysInTable
  <2>. QED BY <2>2, <2>3 DEF Chained, TeddyBuild
<1>5. CASE Len(n) >= 3
  <2>1. Key3(hay, p) = Key3(n, 1)
    <3>1. LowerCase(hay[p + 3 - 1]) = LowerCase(n[3])
      BY <1>1, <1>2, <1>5
    <3>2. p + 3 - 1 = p + 2
      BY <1>2
    <3>. QED BY <1>3, <3>1, <3>2 DEF Key3
  <2>2. k \in LongChain(needles, ids, Key3(hay, p))
    BY <1>5, <2>1 DEF LongChain
  <2>3. p + 2 <= Len(hay)
    BY <1>1, <1>2, <1>5
  <2>4. Key3(hay, p) \in 0 .. HashSize - 1
    BY <1>2, <2>3, KeysInTable
  <2>. QED BY <2>2, <2>3, <2>4 DEF Chained, TeddyBuild
<1>. QED BY <1>2, <1>4, <1>5

\* What is on a chain is a needle of the table.
LEMMA ChainedAreNeedles ==
  ASSUME NEW needles, NEW ids, NEW hay \in Seq(Byte), NEW p \in DOMAIN hay,
         p + 1 <= Len(hay)
  PROVE  Chained(TeddyBuild(needles, ids), hay, p) \subseteq ids
<1>1. Key2(hay, p) \in 0 .. HashSize - 1
  BY KeysInTable
<1>2. p + 2 <= Len(hay) => Key3(hay, p) \in 0 .. HashSize - 1
  BY KeysInTable
<1>. QED BY <1>1, <1>2 DEF Chained, TeddyBuild, ShortChain, LongChain

\* teddy_confirm at one position: where the chunk is not skipped, the needles of
\* the chains that compare equal are exactly the needles that start there, and
\* where it is skipped none does.  Hashing and skipping lose no needle and make up
\* none, for every table and text.
THEOREM PositionExact ==
  ASSUME NEW needles, NEW ids,
         \A k \in ids : needles[k] \in Seq(Byte) /\ Len(needles[k]) >= 2,
         NEW hay \in Seq(Byte), NEW p \in 1 .. Len(hay) - 1
  PROVE  LET t == TeddyBuild(needles, ids)
         IN {k \in ids : StartsAt(hay, p, needles[k])} =
              IF Swept(t, hay, p)
              THEN {k \in Chained(t, hay, p) : StartsAt(hay, p, needles[k])}
              ELSE {}
<1>. DEFINE t == TeddyBuild(needles, ids)
<1>1. p \in DOMAIN hay /\ p + 1 <= Len(hay)
  OBVIOUS
<1>2. ASSUME NEW k \in ids, StartsAt(hay, p, needles[k])
      PROVE  Swept(t, hay, p) /\ k \in Chained(t, hay, p)
  <2>1. needles[k] \in Seq(Byte) /\ Len(needles[k]) >= 2
    OBVIOUS
  <2>2. Swept(t, hay, p)
    <3>1. Len(needles[k]) >= 1
      BY <2>1
    <3>. QED BY <1>1, <1>2, <2>1, <3>1, StartIsSwept
  <2>3. k \in Chained(t, hay, p)
    BY <1>1, <1>2, <2>1, StartIsChained
  <2>. QED BY <2>2, <2>3
<1>3. Chained(t, hay, p) \subseteq ids
  BY <1>1, ChainedAreNeedles
<1>. HIDE DEF t
<1>4. {k \in ids : StartsAt(hay, p, needles[k])} =
        IF Swept(t, hay, p)
        THEN {k \in Chained(t, hay, p) : StartsAt(hay, p, needles[k])} ELSE {}
  BY <1>2, <1>3
<1>. QED BY <1>4 DEF t

\* teddy_probe_at on a scratch whose stamps are older than the scan: what it
\* reports at a position is what starts there and was not reported before.
THEOREM ProbeExact ==
  ASSUME NEW needles, NEW ids,
         \A k \in ids : needles[k] \in Seq(Byte) /\ Len(needles[k]) >= 2,
         NEW hay \in Seq(Byte), NEW p \in 1 .. Len(hay) - 1,
         NEW scr, \A k \in ids : scr.stamp[k] # scr.gen,
         NEW marked, Swept(TeddyBuild(needles, ids), hay, p)
  PROVE  Probe(TeddyBuild(needles, ids), hay, p, scr, marked) =
           {k \in ids : StartsAt(hay, p, needles[k])} \ ToSet(marked)
<1>. DEFINE t == TeddyBuild(needles, ids)
<1>1. {k \in ids : StartsAt(hay, p, needles[k])} =
        {k \in Chained(t, hay, p) : StartsAt(hay, p, needles[k])}
  BY PositionExact
<1>2. Chained(t, hay, p) \subseteq ids
  BY ChainedAreNeedles
<1>3. t.needles = needles
  BY DEF TeddyBuild
<1>. HIDE DEF t
<1>4. Probe(t, hay, p, scr, marked) =
        {k \in ids : StartsAt(hay, p, needles[k])} \ ToSet(marked)
  BY <1>1, <1>2, <1>3 DEF Probe
<1>. QED BY <1>4 DEF t

-----------------------------------------------------------------------------
(***************************************************************************)
(* A whole scan: teddy_confirm on one text.                                *)
(***************************************************************************)

\* The scratches of a scan over n needles: no stamp is ahead of the generation.
Scratches(n) ==
  {scr \in [gen : 0 .. GenMax, stamp : [1 .. n -> 0 .. GenMax]] :
     \A k \in 1 .. n : scr.stamp[k] <= scr.gen}

LEMMA NewScratchTypes ==
  ASSUME NEW n \in Nat
  PROVE  NewScratch(n) \in Scratches(n)
BY TeddyAssumption DEF NewScratch, Scratches, TeddyAssumption

\* The generation of a scan is ahead of every stamp it starts from, also when the
\* counter wraps around.
LEMMA ScratchNextAhead ==
  ASSUME NEW n \in Nat, NEW scr \in Scratches(n)
  PROVE  /\ ScratchNext(scr) \in Scratches(n)
         /\ \A k \in 1 .. n : ScratchNext(scr).stamp[k] # ScratchNext(scr).gen
<1>1. /\ scr \in [gen : 0 .. GenMax, stamp : [1 .. n -> 0 .. GenMax]]
      /\ \A k \in 1 .. n : scr.stamp[k] <= scr.gen
      /\ GenMax \in Nat \ {0}
  BY TeddyAssumption DEF Scratches, TeddyAssumption
<1>2. CASE scr.gen < GenMax
  <2>1. ScratchNext(scr) = [gen |-> scr.gen + 1, stamp |-> scr.stamp]
    BY <1>1, <1>2 DEF ScratchNext
  <2>2. \A k \in 1 .. n : scr.stamp[k] < scr.gen + 1 /\ scr.stamp[k] \in 0 .. GenMax
    BY <1>1
  <2>. QED BY <1>1, <1>2, <2>1, <2>2 DEF Scratches
<1>3. CASE ~(scr.gen < GenMax)
  <2>1. ScratchNext(scr) = [gen |-> 1, stamp |-> [k \in 1 .. n |-> 0]]
    BY <1>1, <1>3 DEF ScratchNext
  <2>. QED BY <1>1, <2>1 DEF Scratches
<1>. QED BY <1>2, <1>3

LEMMA StampTypes ==
  ASSUME NEW n \in Nat, NEW scr \in Scratches(n), NEW found
  PROVE  Stamp(scr, found) \in Scratches(n)
<1>1. /\ scr \in [gen : 0 .. GenMax, stamp : [1 .. n -> 0 .. GenMax]]
      /\ \A k \in 1 .. n : scr.stamp[k] <= scr.gen
      /\ GenMax \in Nat
  BY TeddyAssumption DEF Scratches, TeddyAssumption
<1>2. Stamp(scr, found) =
        [ gen |-> scr.gen,
          stamp |-> [k \in 1 .. n |-> IF k \in found THEN scr.gen ELSE scr.stamp[k]] ]
  BY <1>1 DEF Stamp
<1>. QED BY <1>1, <1>2 DEF Scratches

\* A scan leaves such a scratch, whatever it reports.
LEMMA ConfirmScratch ==
  ASSUME NEW n \in Nat, NEW scr \in Scratches(n), NEW t, NEW hay
  PROVE  TeddyConfirm(t, hay, scr).scr \in Scratches(n)
<1>1. \/ TeddyConfirm(t, hay, scr).scr = scr
      \/ \E found : TeddyConfirm(t, hay, scr).scr = Stamp(ScratchNext(scr), found)
  BY DEF TeddyConfirm
<1>2. ScratchNext(scr) \in Scratches(n)
  BY ScratchNextAhead
<1>. QED BY <1>1, <1>2, StampTypes

\* SetToSeq lists a finite set, each element once.
LEMMA ListsSet ==
  ASSUME NEW S, IsFiniteSet(S)
  PROVE  /\ SetToSeq(S) \in Seq(S)
         /\ ToSet(SetToSeq(S)) = S
         /\ IsInjective(SetToSeq(S))
<1> DEFINE n == Cardinality(S)
           l == SetToSeq(S)
<1>1. n \in Nat /\ ExistsBijection(1 .. n, S)
  BY FS_CardinalityType
<1>2. PICK f : f \in [1 .. n -> S] /\ IsInjective(f)
  BY <1>1 DEF ExistsBijection, Bijection, Injection, IsInjective
<1>3. l \in [1 .. n -> S] /\ IsInjective(l)
  BY <1>2 DEF SetToSeq
<1>4. l \in Injection(1 .. n, S)
  BY <1>3 DEF Injection, IsInjective
<1>5. Cardinality(1 .. n) = n
  BY <1>1, FS_Interval
<1> HIDE DEF n, l
<1>6. l \in Surjection(1 .. n, S)
  <2>1. Cardinality(1 .. n) = Cardinality(S)
    BY <1>5 DEF n
  <2>. QED BY <1>4, <2>1, FS_Injection
<1>7. \A x \in S : \E i \in 1 .. n : l[i] = x
  BY <1>6 DEF Surjection
<1>8. l \in Seq(S) /\ ToSet(l) = S
  BY <1>1, <1>3, <1>7 DEF ToSet
<1>. QED BY <1>3, <1>8 DEF l

\* What a scan reports up to position m, and the positions one by one.
MarksOf(t, hay, scr, m) ==
  FoldLeft(LAMBDA marked, p : ScanAt(t, hay, scr, marked, p), <<>>,
           [p \in 1 .. m |-> p])

ScanStaysIn(P, t, hay, scr, m) ==
  \A marked \in P, p \in 1 .. m : ScanAt(t, hay, scr, marked, p) \in P

LEMMA ScanTrace ==
  ASSUME NEW P, <<>> \in P, NEW m \in Nat, NEW t, NEW hay, NEW scr,
         ScanStaysIn(P, t, hay, scr, m)
  PROVE  \E h \in [0 .. m -> P] :
           /\ h[0] = <<>>
           /\ \A i \in 1 .. m : h[i] = ScanAt(t, hay, scr, h[i - 1], i)
           /\ MarksOf(t, hay, scr, m) = h[m]
<1> DEFINE all == [p \in 1 .. m |-> p]
           Eq(f) == f = [S \in SUBSET (DOMAIN all) |->
                           IF S = {} THEN <<>>
                           ELSE ScanAt(t, hay, scr, f[S \ {Max(S)}], all[Max(S)])]
           it == CHOOSE f : Eq(f)
           g == [x \in P \X (1 .. m) |-> ScanAt(t, hay, scr, x[1], all[x[2]])]
<1>1. m \in Nat /\ DOMAIN all = 1 .. m /\ <<>> \in P
  OBVIOUS
<1>2. MarksOf(t, hay, scr, m) = it[DOMAIN all]
  BY DEF MarksOf, FoldLeft, MapThenFoldSet
<1>3. g \in [P \X (1 .. m) -> P]
  BY <1>1 DEF ScanStaysIn
<1>4. PICK f : Solves(f, P, <<>>, g, m)
  <2> HIDE DEF g, all
  <2> QED
    BY <1>1, <1>3, FoldExists
<1>5. \A S \in SUBSET (1 .. m) : S # {} => Max(S) \in 1 .. m
  <2>1. \A S \in SUBSET (1 .. m) : S \in SUBSET (0 .. m)
    BY <1>1
  <2>2. QED
    BY <1>1, <2>1, Greatest
<1>6. \A x \in P, i \in 1 .. m : g[<<x, i>>] = ScanAt(t, hay, scr, x, all[i])
  OBVIOUS
<1>7. Eq(f)
  <2> HIDE DEF g, all
  <2>1. ASSUME NEW S \in SUBSET (1 .. m), S # {}
        PROVE  f[S] = ScanAt(t, hay, scr, f[S \ {Max(S)}], all[Max(S)])
    <3>1. f[S \ {Max(S)}] \in P /\ f[S] = g[<<f[S \ {Max(S)}], Max(S)>>]
      BY <1>4, <2>1 DEF Solves
    <3>2. QED
      BY <1>5, <1>6, <2>1, <3>1
  <2>2. f[{}] = <<>> /\ f = [S \in SUBSET (1 .. m) |-> f[S]]
    BY <1>4 DEF Solves
  <2>3. QED
    BY <1>1, <2>1, <2>2
<1>8. Eq(it)
  <2> HIDE DEF Eq
  <2> QED
    BY <1>7
<1>9. it[{}] = <<>>
  BY <1>8
<1>10. ASSUME NEW S \in SUBSET (1 .. m), S # {}, it[S \ {Max(S)}] \in P
       PROVE  it[S] = g[<<it[S \ {Max(S)}], Max(S)>>]
  <2> HIDE DEF it, g, all
  <2>1. it[S] = ScanAt(t, hay, scr, it[S \ {Max(S)}], all[Max(S)])
    BY <1>1, <1>8, <1>10
  <2>2. QED
    BY <1>5, <1>6, <1>10, <2>1
<1>11. StepsThrough(it, P, <<>>, g, m)
  <2> HIDE DEF it, g, all
  <2>1. Obeys(it, P, <<>>, g, m)
    BY <1>9, <1>10 DEF Obeys
  <2>2. QED
    BY <1>1, <1>3, <2>1, FoldTrace
<1> DEFINE h == [k \in 0 .. m |-> it[1 .. k]]
<1>12. \A i \in 1 .. m : all[i] = i
  OBVIOUS
<1> HIDE DEF it, g, all
<1>13. ASSUME NEW i \in 1 .. m PROVE h[i] = ScanAt(t, hay, scr, h[i - 1], i)
  <2>1. i \in 1 .. m /\ i \in 0 .. m /\ i - 1 \in 0 .. m
    BY <1>1
  <2>2. it[1 .. i] = g[<<it[1 .. i - 1], i>>] /\ it[1 .. i - 1] \in P
    BY <1>11, <2>1 DEF StepsThrough
  <2>3. it[1 .. i] = ScanAt(t, hay, scr, it[1 .. i - 1], i)
    BY <1>6, <1>12, <2>1, <2>2
  <2>4. QED
    BY <2>1, <2>3
<1>14. h \in [0 .. m -> P] /\ h[0] = <<>> /\ h[m] = it[1 .. m]
  BY <1>1, <1>11 DEF StepsThrough
<1>15. QED
  <2> HIDE DEF h
  <2> QED
    BY <1>1, <1>2, <1>13, <1>14

\* One list after another.
LEMMA JoinLists ==
  ASSUME NEW S, NEW u \in Seq(S), NEW v \in Seq(S)
  PROVE  /\ u \o v \in Seq(S)
         /\ ToSet(u \o v) = ToSet(u) \cup ToSet(v)
         /\ IsInjective(u) /\ IsInjective(v) /\ ToSet(u) \cap ToSet(v) = {}
              => IsInjective(u \o v)
<1> DEFINE w == u \o v
<1>1. /\ w \in Seq(S) /\ Len(w) = Len(u) + Len(v)
      /\ \A i \in 1 .. Len(w) : w[i] = IF i <= Len(u) THEN u[i] ELSE v[i - Len(u)]
  BY ConcatProperties
<1>2. \A i \in 1 .. Len(u) : i \in 1 .. Len(w) /\ w[i] = u[i]
  BY <1>1
<1>3. \A i \in 1 .. Len(v) : Len(u) + i \in 1 .. Len(w) /\ w[Len(u) + i] = v[i]
  BY <1>1
<1>4. DOMAIN u = 1 .. Len(u) /\ DOMAIN v = 1 .. Len(v) /\ DOMAIN w = 1 .. Len(w)
  BY <1>1
<1>5. \A i \in 1 .. Len(w) :
        \/ i \in 1 .. Len(u) /\ w[i] = u[i]
        \/ i - Len(u) \in 1 .. Len(v) /\ w[i] = v[i - Len(u)]
  BY <1>1
<1> HIDE DEF w
<1>6. ToSet(w) = ToSet(u) \cup ToSet(v)
  <2>1. \A x : x \in ToSet(w) <=> \E i \in 1 .. Len(w) : w[i] = x
    BY <1>4 DEF ToSet
  <2>2. \A x : x \in ToSet(u) <=> \E i \in 1 .. Len(u) : u[i] = x
    BY <1>4 DEF ToSet
  <2>3. \A x : x \in ToSet(v) <=> \E i \in 1 .. Len(v) : v[i] = x
    BY <1>4 DEF ToSet
  <2>4. \A x : x \in ToSet(w) <=> x \in ToSet(u) \/ x \in ToSet(v)
    BY <1>2, <1>3, <1>5, <2>1, <2>2, <2>3
  <2>. QED BY <2>4
<1>7. ASSUME IsInjective(u), IsInjective(v), ToSet(u) \cap ToSet(v) = {},
             NEW i \in DOMAIN w, NEW j \in DOMAIN w, w[i] = w[j]
      PROVE  i = j
  <2>1. \A k \in DOMAIN u, l \in DOMAIN v : u[k] # v[l]
    BY <1>7 DEF ToSet
  <2>2. \A k, l \in DOMAIN u : u[k] = u[l] => k = l
    BY <1>7 DEF IsInjective
  <2>3. \A k, l \in DOMAIN v : v[k] = v[l] => k = l
    BY <1>7 DEF IsInjective
  <2>4. CASE i \in 1 .. Len(u) /\ w[i] = u[i]
    BY <1>4, <1>5, <1>7, <2>1, <2>2, <2>4
  <2>5. CASE i - Len(u) \in 1 .. Len(v) /\ w[i] = v[i - Len(u)]
    <3>1. j - Len(u) \in 1 .. Len(v) /\ w[j] = v[j - Len(u)]
      BY <1>4, <1>5, <1>7, <2>1, <2>5
    <3>2. i - Len(u) = j - Len(u)
      BY <1>4, <1>7, <2>3, <2>5, <3>1
    <3>. QED BY <1>4, <3>2
  <2>. QED BY <1>4, <1>5, <2>4, <2>5
<1>8. IsInjective(u) /\ IsInjective(v) /\ ToSet(u) \cap ToSet(v) = {} => IsInjective(w)
  BY <1>7 DEF IsInjective
<1>. QED BY <1>1, <1>6, <1>8 DEF w

\* The needles a position adds to the list.
Added(t, hay, scr, marked, p) ==
  IF Swept(t, hay, p) THEN Probe(t, hay, p, scr, marked) ELSE {}

LEMMA ScanAtLists ==
  ASSUME NEW needles, NEW ids, IsFiniteSet(ids), NEW hay \in Seq(Byte),
         NEW p \in 1 .. Len(hay) - 1, NEW scr, NEW marked \in Seq(ids),
         NEW t, t = TeddyBuild(needles, ids)
  PROVE  /\ ScanAt(t, hay, scr, marked, p) \in Seq(ids)
         /\ ToSet(ScanAt(t, hay, scr, marked, p))
              = ToSet(marked) \cup Added(t, hay, scr, marked, p)
         /\ IsInjective(marked) => IsInjective(ScanAt(t, hay, scr, marked, p))
<1> DEFINE new == Probe(t, hay, p, scr, marked)
           l == SetToSeq(new)
<1>1. CASE ~Swept(t, hay, p)
  BY <1>1 DEF ScanAt, Added
<1>2. CASE Swept(t, hay, p)
  <2>1. Chained(t, hay, p) \subseteq ids
    <3>1. p \in DOMAIN hay /\ p + 1 <= Len(hay)
      OBVIOUS
    <3>. QED BY <3>1, ChainedAreNeedles
  <2>2. new \subseteq ids /\ new \cap ToSet(marked) = {}
    BY <2>1 DEF Probe
  <2>3. IsFiniteSet(new)
    BY <2>2, FS_Subset
  <2>4. ScanAt(t, hay, scr, marked, p) = marked \o l
    BY <1>2 DEF ScanAt
  <2>5. Added(t, hay, scr, marked, p) = new
    BY <1>2 DEF Added
  <2> HIDE DEF new
  <2>6. l \in Seq(new) /\ ToSet(l) = new /\ IsInjective(l)
    BY <2>3, ListsSet
  <2>7. l \in Seq(ids)
    BY <2>2, <2>6
  <2> HIDE DEF l
  <2>. QED BY <2>2, <2>4, <2>5, <2>6, <2>7, JoinLists
<1>. QED BY <1>1, <1>2

\* What a scan reports are needles of its scanner, for every text.
LEMMA ConfirmTrace ==
  ASSUME NEW needles, NEW ids, IsFiniteSet(ids), NEW hay \in Seq(Byte), Len(hay) >= 2,
         NEW t, t = TeddyBuild(needles, ids), NEW scr, NEW now, now = ScratchNext(scr)
  PROVE  \E h \in [0 .. Len(hay) - 1 -> Seq(ids)] :
           /\ h[0] = <<>>
           /\ \A i \in 1 .. Len(hay) - 1 : h[i] = ScanAt(t, hay, now, h[i - 1], i)
           /\ TeddyConfirm(t, hay, scr).marks = h[Len(hay) - 1]
<1>1. PICK m \in Nat : m = Len(hay) - 1
  OBVIOUS
<1>2. ScanStaysIn(Seq(ids), t, hay, now, m) /\ <<>> \in Seq(ids)
  BY <1>1, ScanAtLists DEF ScanStaysIn
<1>3. PICK h \in [0 .. m -> Seq(ids)] :
        /\ h[0] = <<>>
        /\ \A i \in 1 .. m : h[i] = ScanAt(t, hay, now, h[i - 1], i)
        /\ MarksOf(t, hay, now, m) = h[m]
  <2> DEFINE P == Seq(ids)
  <2>1. ScanStaysIn(P, t, hay, now, m) /\ <<>> \in P
    BY <1>2
  <2> HIDE DEF P
  <2>2. \E h \in [0 .. m -> P] :
          /\ h[0] = <<>>
          /\ \A i \in 1 .. m : h[i] = ScanAt(t, hay, now, h[i - 1], i)
          /\ MarksOf(t, hay, now, m) = h[m]
    BY <2>1, ScanTrace
  <2>. QED BY <2>2 DEF P
<1>4. TeddyConfirm(t, hay, scr).marks = MarksOf(t, hay, now, m)
  <2>1. ~(Len(hay) < 2)
    OBVIOUS
  <2>. QED BY <1>1, <2>1 DEF TeddyConfirm, MarksOf
<1>. QED BY <1>1, <1>3, <1>4

LEMMA ConfirmTypes ==
  ASSUME NEW needles, NEW ids, IsFiniteSet(ids), NEW hay \in Seq(Byte),
         NEW t, t = TeddyBuild(needles, ids), NEW scr
  PROVE  TeddyConfirm(t, hay, scr).marks \in Seq(ids)
<1>1. CASE Len(hay) < 2
  BY <1>1 DEF TeddyConfirm
<1>2. CASE ~(Len(hay) < 2)
  <2>1. PICK now : now = ScratchNext(scr)
    OBVIOUS
  <2>2. Len(hay) >= 2 /\ Len(hay) - 1 \in 0 .. Len(hay) - 1
    BY <1>2
  <2>3. PICK h \in [0 .. Len(hay) - 1 -> Seq(ids)] :
          TeddyConfirm(t, hay, scr).marks = h[Len(hay) - 1]
    BY <2>1, <2>2, ConfirmTrace
  <2>. QED BY <2>2, <2>3
<1>. QED BY <1>1, <1>2

\* On stamps of older scans a position adds what starts there and is not listed.
LEMMA AddedExact ==
  ASSUME NEW needles, NEW ids,
         \A k \in ids : needles[k] \in Seq(Byte) /\ Len(needles[k]) >= 2,
         NEW hay \in Seq(Byte), NEW p \in 1 .. Len(hay) - 1,
         NEW scr, \A k \in ids : scr.stamp[k] # scr.gen, NEW marked
  PROVE  Added(TeddyBuild(needles, ids), hay, scr, marked, p) =
           {k \in ids : StartsAt(hay, p, needles[k])} \ ToSet(marked)
<1> DEFINE t == TeddyBuild(needles, ids)
<1>1. CASE Swept(t, hay, p)
  <2>1. Probe(t, hay, p, scr, marked)
          = {k \in ids : StartsAt(hay, p, needles[k])} \ ToSet(marked)
    BY <1>1, ProbeExact
  <2>. QED BY <1>1, <2>1 DEF Added
<1>2. CASE ~Swept(t, hay, p)
  <2>1. {k \in ids : StartsAt(hay, p, needles[k])} = {}
    BY <1>2, PositionExact
  <2>. QED BY <1>2, <2>1 DEF Added
<1>. QED BY <1>1, <1>2

\* No needle of ids is stamped with this scan yet.
Ahead(scr, ids) == \A k \in ids : scr.stamp[k] # scr.gen

\* teddy_confirm reports, once each, the needles of its scanner that occur in the
\* text: neither hashing, nor skipped chunks, nor stamps of earlier scans matter.
THEOREM ConfirmExact ==
  ASSUME NEW needles, NEW ids, IsFiniteSet(ids), NEW scr, Ahead(ScratchNext(scr), ids),
         \A k \in ids : needles[k] \in Seq(Byte) /\ Len(needles[k]) >= 2,
         NEW hay \in Seq(Byte), NEW t, t = TeddyBuild(needles, ids)
  PROVE  LET found == TeddyConfirm(t, hay, scr).marks
         IN /\ IsInjective(found)
            /\ ToSet(found) = {k \in ids : Occurs(hay, needles[k])}
<1> DEFINE found == TeddyConfirm(t, hay, scr).marks
<1>2. \A k \in ids, p \in DOMAIN hay :
        StartsAt(hay, p, needles[k]) => p \in 1 .. Len(hay) - 1
  <2> SUFFICES ASSUME NEW k \in ids, NEW p \in DOMAIN hay, StartsAt(hay, p, needles[k])
               PROVE  p \in 1 .. Len(hay) - 1
    OBVIOUS
  <2>1. p + Len(needles[k]) - 1 <= Len(hay) /\ Len(needles[k]) \in Nat
        /\ Len(needles[k]) >= 2 /\ p \in 1 .. Len(hay) /\ Len(hay) \in Nat
    BY DEF StartsAt
  <2>. QED BY <2>1
<1>3. CASE Len(hay) < 2
  <2>1. found = <<>>
    BY <1>3 DEF TeddyConfirm
  <2>2. {k \in ids : Occurs(hay, needles[k])} = {}
    <3>1. 1 .. Len(hay) - 1 = {}
      BY <1>3
    <3>. QED BY <1>2, <3>1 DEF Occurs
  <2> HIDE DEF found
  <2>3. IsInjective(found) /\ ToSet(found) = {}
    BY <2>1 DEF IsInjective, ToSet
  <2>. QED BY <2>2, <2>3 DEF found
<1>4. CASE ~(Len(hay) < 2)
  <2>1. PICK now, m : now = ScratchNext(scr) /\ m = Len(hay) - 1 /\ m \in Nat
    BY <1>4
  <2>2. \A k \in ids : now.stamp[k] # now.gen
    BY <2>1 DEF Ahead
  <2>3. PICK h \in [0 .. m -> Seq(ids)] :
          /\ h[0] = <<>>
          /\ \A i \in 1 .. m : h[i] = ScanAt(t, hay, now, h[i - 1], i)
          /\ found = h[m]
    BY <1>4, <2>1, ConfirmTrace
  <2> DEFINE Upto(i) == {k \in ids : \E p \in 1 .. i : StartsAt(hay, p, needles[k])}
             Q == {i \in Nat : i <= m => /\ IsInjective(h[i])
                                         /\ ToSet(h[i]) = Upto(i)}
  <2> HIDE DEF found
  <2>4. 0 \in Q
    <3>1. Upto(0) = {}
      OBVIOUS
    <3>. QED BY <2>3, <3>1 DEF IsInjective, ToSet
  <2>5. ASSUME NEW i \in Nat, i \in Q PROVE i + 1 \in Q
    <3>1. SUFFICES ASSUME i + 1 <= m
                   PROVE  IsInjective(h[i + 1]) /\ ToSet(h[i + 1]) = Upto(i + 1)
      OBVIOUS
    <3>2. PICK j \in 1 .. m : j = i + 1 /\ j - 1 = i /\ j \in 1 .. Len(hay) - 1
      BY <2>1, <3>1
    <3>3. h[i] \in Seq(ids) /\ IsInjective(h[i]) /\ ToSet(h[i]) = Upto(i)
      <4>1. i \in 0 .. m /\ i <= m
        BY <2>1, <3>1
      <4>. QED BY <2>3, <2>5, <4>1
    <3>4. h[j] = ScanAt(t, hay, now, h[i], j)
      BY <2>3, <3>2
    <3> HIDE DEF Upto
    <3>5. /\ IsInjective(h[j])
          /\ ToSet(h[j]) = Upto(i) \cup Added(t, hay, now, h[i], j)
      BY <3>2, <3>3, <3>4, ScanAtLists
    <3>6. Upto(i) \cup Added(t, hay, now, h[i], j)
            = Upto(i) \cup {k \in ids : StartsAt(hay, j, needles[k])}
      <4>1. PICK marked : marked = h[i]
        OBVIOUS
      <4>2. Added(TeddyBuild(needles, ids), hay, now, marked, j)
              = {k \in ids : StartsAt(hay, j, needles[k])} \ ToSet(marked)
        BY <2>2, <3>2, AddedExact
      <4>. QED BY <3>3, <4>1, <4>2
    <3>7. Upto(i + 1) = Upto(i) \cup {k \in ids : StartsAt(hay, j, needles[k])}
      <4>1. \A p : p \in 1 .. i + 1 <=> p \in 1 .. i \/ p = j
        BY <3>2
      <4>. QED BY <4>1 DEF Upto
    <3>. QED BY <3>2, <3>5, <3>6, <3>7
  <2>6. m \in Q
    <3>1. \A i \in Nat : i \in Q => i + 1 \in Q
      BY <2>5
    <3>2. Nat \subseteq Q
      <4> HIDE DEF Q
      <4>. QED BY <2>4, <3>1, SetInduction
    <3> HIDE DEF Q
    <3>. QED BY <2>1, <3>2
  <2>7. Upto(m) = {k \in ids : Occurs(hay, needles[k])}
    <3>1. 1 .. m \subseteq DOMAIN hay
      BY <2>1
    <3>. QED BY <1>2, <2>1, <3>1 DEF Occurs
  <2>. QED BY <2>3, <2>6, <2>7 DEF found
<1>. QED BY <1>3, <1>4

-----------------------------------------------------------------------------
(***************************************************************************)
(* The scans of an event.                                                  *)
(***************************************************************************)

\* A database is what was loaded from an artifact.
LEMMA DbOfArtifact ==
  ASSUME NEW d \in Dbs
  PROVE  \E a : ArtifactTypes(a) /\ LoadResult(a) = "ok" /\ d = Loaded(a)
BY ArtifactAssumption DEF ArtifactAssumption, Dbs, ToSet

\* The scanner of a field, unless it is scanned for no needle.
LEMMA ScannerOfField ==
  ASSUME NEW d \in Dbs, NEW f \in DOMAIN d.fields
  PROVE  /\ IsFiniteSet(Sought(d, f))
         /\ \A k \in Sought(d, f) : k \in DOMAIN d.needles
         /\ d.fieldTeddy[f] = NoTeddy => Sought(d, f) = {}
         /\ d.fieldTeddy[f] # NoTeddy => d.fieldTeddy[f] = TeddyBuild(d.needles, Sought(d, f))
<1>1. PICK a : ArtifactTypes(a) /\ d = Loaded(a)
  BY DbOfArtifact
<1>2. /\ d.fields = a.fields /\ d.needles = a.needles
      /\ d.posts = a.posts /\ d.postRefs = a.postRefs
  BY <1>1 DEF Loaded
<1>3. Sought(d, f) = Sought(a, f)
  BY <1>2 DEF Sought, AnyFieldPosted, PostedTo, Refs
<1>4. d.fieldTeddy[f] = TeddyOf(a, f)
  BY <1>1, <1>2 DEF Loaded
<1>5. Sought(d, f) \in SUBSET (DOMAIN d.needles)
  BY <1>2, <1>3 DEF Sought, PostedTo
<1>6. IsFiniteSet(Sought(d, f))
  <2>1. PICK n \in Nat : DOMAIN d.needles = 1 .. n
    <3>1. a.needles \in Seq(Seq(Byte))
      BY <1>1 DEF ArtifactTypes
    <3>. QED BY <1>2, <3>1
  <2>2. IsFiniteSet(1 .. n)
    BY FS_Interval
  <2>. QED BY <1>5, <2>1, <2>2, FS_Subset
<1>7. TeddyBuild(d.needles, Sought(d, f)) # NoTeddy
  BY <1>1, <1>2, <1>5 DEF ArtifactTypes
<1>8. d.fieldTeddy[f] = IF Sought(d, f) = {} THEN NoTeddy
                        ELSE TeddyBuild(d.needles, Sought(d, f))
  BY <1>2, <1>3, <1>4 DEF TeddyOf
<1>. QED BY <1>5, <1>6, <1>7, <1>8

\* What is on the stack between two scans of an event.
Marks(d) == Seq((DOMAIN d.fields) \X (DOMAIN d.needles))

ScanStates(d) == [scr : Scratches(Len(d.needles)), marks : Marks(d)]

\* The values of an event's fields.
Views(d) == [DOMAIN d.fields -> {NoVal} \cup Seq(Byte)]

\* The scan of one field, from the scratch the field before left.
LEMMA ScanFieldDoes ==
  ASSUME db \in Dbs, NEW view \in Views(db), NEW sel, NEW acc \in ScanStates(db),
         NEW f \in DOMAIN db.fields, f \in ScannedFields(sel), view[f] # NoVal,
         NEW c, c = TeddyConfirm(db.fieldTeddy[f], view[f], acc.scr)
  PROVE  /\ c.scr \in Scratches(Len(db.needles))
         /\ c.marks \in Seq(Sought(db, f))
         /\ (\A k \in DOMAIN db.needles : Len(db.needles[k]) >= 2) =>
              /\ IsInjective(c.marks)
              /\ ToSet(c.marks) = {k \in Sought(db, f) : Occurs(view[f], db.needles[k])}
<1>1. PICK ids : ids = Sought(db, f)
  OBVIOUS
<1>2. PICK t : t = db.fieldTeddy[f]
  OBVIOUS
<1>3. PICK hay \in Seq(Byte) : hay = view[f]
  BY DEF Views
<1>4. PICK scr : scr = acc.scr
  OBVIOUS
<1>5. PICK needles : needles = db.needles
  OBVIOUS
<1>6. needles \in Seq(Seq(Byte))
  <2>1. PICK a : ArtifactTypes(a) /\ db = Loaded(a)
    BY DbOfArtifact
  <2>2. db.needles = a.needles /\ a.needles \in Seq(Seq(Byte))
    BY <2>1 DEF ArtifactTypes, Loaded
  <2>. QED BY <1>5, <2>2
<1>7. IsFiniteSet(ids) /\ (\A k \in ids : k \in DOMAIN needles) /\ t = TeddyBuild(needles, ids)
  BY <1>1, <1>2, <1>5, ScannerOfField DEF ScannedFields
<1>8. scr \in Scratches(Len(needles)) /\ Len(needles) \in Nat
  BY <1>4, <1>5, <1>6 DEF ScanStates
<1>9. c = TeddyConfirm(t, hay, scr)
  BY <1>2, <1>3, <1>4
<1>10. c.scr \in Scratches(Len(needles))
  BY <1>8, <1>9, ConfirmScratch
<1>11. c.marks \in Seq(ids)
  BY <1>3, <1>7, <1>9, ConfirmTypes
<1>12. ASSUME \A k \in DOMAIN db.needles : Len(db.needles[k]) >= 2
       PROVE  /\ IsInjective(c.marks)
              /\ ToSet(c.marks) = {k \in ids : Occurs(hay, needles[k])}
  <2>1. Ahead(ScratchNext(scr), ids)
    <3>1. \A k \in 1 .. Len(needles) : ScratchNext(scr).stamp[k] # ScratchNext(scr).gen
      BY <1>8, ScratchNextAhead
    <3>2. DOMAIN needles = 1 .. Len(needles)
      BY <1>6
    <3>. QED BY <1>7, <3>1, <3>2 DEF Ahead
  <2>2. \A k \in ids : needles[k] \in Seq(Byte) /\ Len(needles[k]) >= 2
    BY <1>5, <1>6, <1>7, <1>12
  <2>. QED BY <1>7, <1>9, <2>1, <2>2, ConfirmExact
<1>. QED BY <1>1, <1>3, <1>5, <1>10, <1>11, <1>12

\* The marks of one field.
FieldMarks(f, l) == [i \in DOMAIN l |-> <<f, l[i]>>]

LEMMA MarksOfField ==
  ASSUME NEW ids, NEW l \in Seq(ids), NEW f, NEW u, u = FieldMarks(f, l)
  PROVE  /\ u \in Seq({f} \X ids)
         /\ ToSet(u) = {f} \X ToSet(l)
         /\ IsInjective(l) => IsInjective(u)
<1>1. DOMAIN l = 1 .. Len(l) /\ Len(l) \in Nat /\ \A i \in DOMAIN l : l[i] \in ids
  OBVIOUS
<1>2. u \in [1 .. Len(l) -> {f} \X ids] /\ DOMAIN u = DOMAIN l
  BY <1>1 DEF FieldMarks
<1>3. \A i \in DOMAIN l : u[i] = <<f, l[i]>>
  BY DEF FieldMarks
<1>4. u \in Seq({f} \X ids)
  BY <1>1, <1>2
<1>5. ToSet(u) = {f} \X ToSet(l)
  <2>1. \A x : x \in ToSet(u) <=> \E i \in DOMAIN l : x = <<f, l[i]>>
    BY <1>2, <1>3 DEF ToSet
  <2>2. \A x : x \in ToSet(l) <=> \E i \in DOMAIN l : x = l[i]
    BY DEF ToSet
  <2>. QED BY <2>1, <2>2
<1>6. IsInjective(l) => IsInjective(u)
  BY <1>2, <1>3 DEF IsInjective
<1>. QED BY <1>4, <1>5, <1>6

\* The marks that the scan of field f adds.
Found(view, sel, f) ==
  IF f \in ScannedFields(sel) /\ view[f] # NoVal
  THEN {f} \X {k \in Sought(db, f) : Occurs(view[f], db.needles[k])}
  ELSE {}

LEMMA ScanFieldValue ==
  ASSUME db \in Dbs, NEW view \in Views(db), NEW sel, NEW acc \in ScanStates(db),
         NEW f \in DOMAIN db.fields, NEW s, s = ScanField(view, sel, acc, f)
  PROVE  /\ s \in ScanStates(db)
         /\ AllWide(db) =>
              /\ ToSet(s.marks) = ToSet(acc.marks) \cup Found(view, sel, f)
              /\ IsInjective(acc.marks) /\ (\A m \in ToSet(acc.marks) : m[1] # f)
                   => IsInjective(s.marks)
<1>1. CASE f \notin ScannedFields(sel) \/ view[f] = NoVal
  <2>1. s = acc /\ Found(view, sel, f) = {}
    BY <1>1 DEF ScanField, Found
  <2>. QED BY <2>1
<1>2. CASE ~(f \notin ScannedFields(sel) \/ view[f] = NoVal)
  <2>1. PICK c : c = TeddyConfirm(db.fieldTeddy[f], view[f], acc.scr)
    OBVIOUS
  <2>2. PICK u : u = FieldMarks(f, c.marks)
    OBVIOUS
  <2>3. s = [scr |-> c.scr, marks |-> acc.marks \o u]
    BY <1>2, <2>1, <2>2 DEF ScanField, FieldMarks
  <2>4. PICK ids : ids = Sought(db, f)
    OBVIOUS
  <2>5. /\ c.scr \in Scratches(Len(db.needles))
        /\ c.marks \in Seq(ids)
        /\ AllWide(db) =>
              /\ IsInjective(c.marks)
              /\ ToSet(c.marks) = {k \in ids : Occurs(view[f], db.needles[k])}
    BY <1>2, <2>1, <2>4, ScanFieldDoes DEF AllWide
  <2>6. /\ u \in Seq({f} \X ids)
        /\ ToSet(u) = {f} \X ToSet(c.marks)
        /\ IsInjective(c.marks) => IsInjective(u)
    <3>1. c.marks \in Seq(ids)
      BY <2>5
    <3>2. u \in Seq({f} \X ids)
      BY <2>2, <3>1, MarksOfField
    <3>3. ToSet(u) = {f} \X ToSet(c.marks)
      BY <2>2, <3>1, MarksOfField
    <3>4. IsInjective(c.marks) => IsInjective(u)
      BY <2>2, <3>1, MarksOfField
    <3>. QED BY <3>2, <3>3, <3>4
  <2>7. \A k \in ids : k \in DOMAIN db.needles
    BY <2>4, ScannerOfField
  <2>8. PICK M : M = (DOMAIN db.fields) \X (DOMAIN db.needles)
    OBVIOUS
  <2>9. u \in Seq(M) /\ acc.marks \in Seq(M)
    <3>1. \A x \in {f} \X ids : x \in M
      BY <2>7, <2>8
    <3>2. acc.marks \in Seq(M)
      BY <2>8 DEF ScanStates, Marks
    <3>. QED BY <2>6, <3>1, <3>2
  <2>10. /\ acc.marks \o u \in Seq(M)
         /\ ToSet(acc.marks \o u) = ToSet(acc.marks) \cup ToSet(u)
         /\ IsInjective(acc.marks) /\ IsInjective(u) /\ ToSet(acc.marks) \cap ToSet(u) = {}
              => IsInjective(acc.marks \o u)
    BY <2>9, JoinLists
  <2>11. s \in ScanStates(db)
    BY <2>3, <2>5, <2>8, <2>10 DEF ScanStates, Marks
  <2>12. AllWide(db) => ToSet(u) = Found(view, sel, f)
    BY <1>2, <2>4, <2>5, <2>6 DEF Found
  <2>13. \A m \in ToSet(u) : m[1] = f
    BY <2>6
  <2>14. s.marks = acc.marks \o u
    BY <2>3
  <2>15. (\A m \in ToSet(acc.marks) : m[1] # f) => ToSet(acc.marks) \cap ToSet(u) = {}
    BY <2>13
  <2>. QED BY <2>5, <2>6, <2>10, <2>11, <2>12, <2>14, <2>15
<1>. QED BY <1>1, <1>2

\* The fields of an event, one by one.
StartScan == [scr |-> tscr, marks |-> <<>>]

FieldsStayIn(P, view, sel, n) ==
  \A acc \in P, f \in 1 .. n : ScanField(view, sel, acc, f) \in P

LEMMA FieldsTrace ==
  ASSUME NEW P, StartScan \in P, NEW n \in Nat, DOMAIN db.fields = 1 .. n,
         NEW view, NEW sel, FieldsStayIn(P, view, sel, n)
  PROVE  \E h \in [0 .. n -> P] :
           /\ h[0] = StartScan
           /\ \A i \in 1 .. n : h[i] = ScanField(view, sel, h[i - 1], i)
           /\ Scan(view, sel) = h[n]
<1> DEFINE all == [f \in DOMAIN db.fields |-> f]
           Eq(f) == f = [S \in SUBSET (DOMAIN all) |->
                           IF S = {} THEN StartScan
                           ELSE ScanField(view, sel, f[S \ {Max(S)}], all[Max(S)])]
           it == CHOOSE f : Eq(f)
           g == [x \in P \X (1 .. n) |-> ScanField(view, sel, x[1], all[x[2]])]
<1>1. n \in Nat /\ DOMAIN all = 1 .. n /\ StartScan \in P
  OBVIOUS
<1>2. Scan(view, sel) = it[DOMAIN all]
  BY DEF Scan, StartScan, FoldLeft, MapThenFoldSet
<1>3. g \in [P \X (1 .. n) -> P]
  BY <1>1 DEF FieldsStayIn
<1>4. PICK f : Solves(f, P, StartScan, g, n)
  <2> HIDE DEF g, all
  <2> QED
    BY <1>1, <1>3, FoldExists
<1>5. \A S \in SUBSET (1 .. n) : S # {} => Max(S) \in 1 .. n
  <2>1. \A S \in SUBSET (1 .. n) : S \in SUBSET (0 .. n)
    BY <1>1
  <2>2. QED
    BY <1>1, <2>1, Greatest
<1>6. \A x \in P, i \in 1 .. n : g[<<x, i>>] = ScanField(view, sel, x, all[i])
  OBVIOUS
<1>7. Eq(f)
  <2> HIDE DEF g, all
  <2>1. ASSUME NEW S \in SUBSET (1 .. n), S # {}
        PROVE  f[S] = ScanField(view, sel, f[S \ {Max(S)}], all[Max(S)])
    <3>1. f[S \ {Max(S)}] \in P /\ f[S] = g[<<f[S \ {Max(S)}], Max(S)>>]
      BY <1>4, <2>1 DEF Solves
    <3>2. QED
      BY <1>5, <1>6, <2>1, <3>1
  <2>2. f[{}] = StartScan /\ f = [S \in SUBSET (1 .. n) |-> f[S]]
    BY <1>4 DEF Solves
  <2>3. QED
    BY <1>1, <2>1, <2>2
<1>8. Eq(it)
  <2> HIDE DEF Eq
  <2> QED
    BY <1>7
<1>9. it[{}] = StartScan
  BY <1>8
<1>10. ASSUME NEW S \in SUBSET (1 .. n), S # {}, it[S \ {Max(S)}] \in P
       PROVE  it[S] = g[<<it[S \ {Max(S)}], Max(S)>>]
  <2> HIDE DEF it, g, all
  <2>1. it[S] = ScanField(view, sel, it[S \ {Max(S)}], all[Max(S)])
    BY <1>1, <1>8, <1>10
  <2>2. QED
    BY <1>5, <1>6, <1>10, <2>1
<1>11. StepsThrough(it, P, StartScan, g, n)
  <2> HIDE DEF it, g, all
  <2>1. Obeys(it, P, StartScan, g, n)
    BY <1>9, <1>10 DEF Obeys
  <2>2. QED
    BY <1>1, <1>3, <2>1, FoldTrace
<1> DEFINE h == [k \in 0 .. n |-> it[1 .. k]]
<1>12. \A i \in 1 .. n : all[i] = i
  OBVIOUS
<1> HIDE DEF it, g, all
<1>13. ASSUME NEW i \in 1 .. n PROVE h[i] = ScanField(view, sel, h[i - 1], i)
  <2>1. i \in 1 .. n /\ i \in 0 .. n /\ i - 1 \in 0 .. n
    BY <1>1
  <2>2. it[1 .. i] = g[<<it[1 .. i - 1], i>>] /\ it[1 .. i - 1] \in P
    BY <1>11, <2>1 DEF StepsThrough
  <2>3. it[1 .. i] = ScanField(view, sel, it[1 .. i - 1], i)
    BY <1>6, <1>12, <2>1, <2>2
  <2>4. QED
    BY <2>1, <2>3
<1>14. h \in [0 .. n -> P] /\ h[0] = StartScan /\ h[n] = it[1 .. n]
  BY <1>1, <1>11 DEF StepsThrough
<1>15. QED
  <2> HIDE DEF h
  <2> QED
    BY <1>1, <1>2, <1>13, <1>14

\* The scans of an event report, once each, the needles that occur in the fields that
\* are scanned, and leave a scratch without stamps ahead.
LEMMA ScanExact ==
  ASSUME db \in Dbs, NEW view \in Views(db), NEW sel,
         tscr \in Scratches(Len(db.needles)), NEW s, s = Scan(view, sel)
  PROVE  /\ s \in ScanStates(db)
         /\ AllWide(db) =>
              /\ IsInjective(s.marks)
              /\ ToSet(s.marks) = UNION {Found(view, sel, f) : f \in DOMAIN db.fields}
<1>1. PICK n \in Nat : DOMAIN db.fields = 1 .. n
  <2>1. PICK a : ArtifactTypes(a) /\ db = Loaded(a)
    BY DbOfArtifact
  <2>2. db.fields = a.fields /\ a["fields"] \in Seq(ToSet(a["fields"]))
    BY <2>1 DEF ArtifactTypes, Loaded
  <2>. QED BY <2>2
<1>2. PICK P : P = ScanStates(db)
  OBVIOUS
<1>3. StartScan \in P
  BY <1>2 DEF StartScan, ScanStates, Marks
<1>4. \A acc \in P, f \in 1 .. n : ScanField(view, sel, acc, f) \in P
  BY <1>1, <1>2, ScanFieldValue
<1>5. PICK h \in [0 .. n -> P] :
        /\ h[0] = StartScan
        /\ \A i \in 1 .. n : h[i] = ScanField(view, sel, h[i - 1], i)
        /\ Scan(view, sel) = h[n]
  <2>1. FieldsStayIn(P, view, sel, n)
    BY <1>4 DEF FieldsStayIn
  <2>. QED BY <1>1, <1>3, <2>1, FieldsTrace
<1>6. s \in P
  BY <1>5
<1>7. ASSUME AllWide(db)
      PROVE  /\ IsInjective(s.marks)
             /\ ToSet(s.marks) = UNION {Found(view, sel, f) : f \in DOMAIN db.fields}
  <2> DEFINE Q == {i \in Nat : i <= n => /\ IsInjective(h[i].marks)
                                         /\ ToSet(h[i].marks)
                                              = UNION {Found(view, sel, f) : f \in 1 .. i}}
  <2>1. 0 \in Q
    <3>1. h[0].marks = <<>>
      BY <1>5 DEF StartScan
    <3>2. PICK l : l = h[0].marks
      OBVIOUS
    <3>3. IsInjective(l) /\ ToSet(l) = {}
      BY <3>1, <3>2 DEF IsInjective, ToSet
    <3>. QED BY <3>2, <3>3
  <2>2. ASSUME NEW i \in Nat, i \in Q PROVE i + 1 \in Q
    <3>1. SUFFICES ASSUME i + 1 <= n
                   PROVE  /\ IsInjective(h[i + 1].marks)
                          /\ ToSet(h[i + 1].marks)
                               = UNION {Found(view, sel, f) : f \in 1 .. i + 1}
      OBVIOUS
    <3>2. PICK j \in 1 .. n : j = i + 1 /\ j - 1 = i /\ i \in 0 .. n
      BY <3>1
    <3>3. PICK acc : acc = h[i]
      OBVIOUS
    <3>4. /\ acc \in P
          /\ IsInjective(acc.marks)
          /\ ToSet(acc.marks) = UNION {Found(view, sel, f) : f \in 1 .. i}
      BY <2>2, <3>2, <3>3
    <3>5. h[j] = ScanField(view, sel, acc, j)
      BY <1>5, <3>2, <3>3
    <3>6. \A m \in ToSet(acc.marks) : m[1] # j
      <4>1. \A f \in 1 .. i : \A m \in Found(view, sel, f) : m[1] = f
        BY DEF Found
      <4>2. \A f \in 1 .. i : f # j
        BY <3>2
      <4>. QED BY <3>4, <4>1, <4>2
    <3>7. /\ IsInjective(h[j].marks)
          /\ ToSet(h[j].marks) = ToSet(acc.marks) \cup Found(view, sel, j)
      <4>1. PICK x : x = h[j]
        OBVIOUS
      <4>2. x = ScanField(view, sel, acc, j) /\ acc \in ScanStates(db) /\ j \in DOMAIN db.fields
        BY <1>1, <1>2, <3>4, <3>5, <4>1
      <4>3. ToSet(x.marks) = ToSet(acc.marks) \cup Found(view, sel, j)
        BY <1>7, <4>2, ScanFieldValue
      <4>4. IsInjective(x.marks)
        BY <1>7, <3>4, <3>6, <4>2, ScanFieldValue
      <4>. QED BY <4>1, <4>3, <4>4
    <3>8. UNION {Found(view, sel, f) : f \in 1 .. i + 1}
            = (UNION {Found(view, sel, f) : f \in 1 .. i}) \cup Found(view, sel, j)
      <4>1. \A f : f \in 1 .. i + 1 <=> f \in 1 .. i \/ f = j
        BY <3>2
      <4>. QED BY <4>1
    <3>. QED BY <3>2, <3>4, <3>7, <3>8
  <2>3. n \in Q
    <3>1. \A i \in Nat : i \in Q => i + 1 \in Q
      BY <2>2
    <3> HIDE DEF Q
    <3>2. Nat \subseteq Q
      BY <2>1, <3>1, SetInduction
    <3>. QED BY <3>2
  <2>. QED BY <1>1, <1>5, <2>3
<1>. QED BY <1>2, <1>6, <1>7

-----------------------------------------------------------------------------
(***************************************************************************)
(* The scratch of the matcher.                                             *)
(***************************************************************************)

\* The arrays of the scratch have the sizes of the tables of the database.
Sized ==
  db # NoDb =>
    /\ DOMAIN ruleGen = Rules /\ DOMAIN evalDone = Rules
    /\ DOMAIN memo = DOMAIN db.fields

\* The generation is within its width, and every stamp is one it has had since
\* the stamps were last cleared.
StampsInPast ==
  /\ gen \in 0 .. GenMax
  /\ \A r \in DOMAIN ruleGen : ruleGen[r] \in 0 .. gen
  /\ \A r \in DOMAIN evalDone : evalDone[r] \in 0 .. gen

ScratchInv == Sized /\ StampsInPast

\* What an evaluation does to the stamps, from the stamps s it starts with.
StampedBy(s) ==
  /\ gen' = s.gen
  /\ DOMAIN ruleGen' = Rules
  /\ \A r \in Rules : ruleGen'[r] \in {s.gen, s.ruleGen[r]}
  /\ DOMAIN evalDone' = Rules
  /\ \A r \in Rules : evalDone'[r] \in {s.gen, s.evalDone[r]}

\* bump_eval_gen advances the generation past every stamp it keeps, also when the
\* counter wraps around.
LEMMA BumpAdvances ==
  ASSUME ScratchInv, db # NoDb,
         NEW s, s = BumpGen(Stamps)
  PROVE  /\ s.gen \in 1 .. GenMax
         /\ DOMAIN s.ruleGen = Rules /\ DOMAIN s.evalDone = Rules
         /\ \A r \in Rules : s.ruleGen[r] \in 0 .. s.gen - 1
         /\ \A r \in Rules : s.evalDone[r] \in 0 .. s.gen - 1
<1>. USE TeddyAssumption
<1>1. CASE gen < GenMax
  <2>1. s = [gen |-> gen + 1, ruleGen |-> ruleGen, evalDone |-> evalDone]
    BY <1>1 DEF BumpGen, Stamps
  <2>. QED BY <1>1, <2>1 DEF ScratchInv, Sized, StampsInPast, TeddyAssumption
<1>2. CASE ~(gen < GenMax)
  <2>1. /\ s.gen = 1
        /\ s.ruleGen = [r \in DOMAIN ruleGen |-> 0]
        /\ s.evalDone = [r \in DOMAIN evalDone |-> 0]
    BY <1>2 DEF BumpGen, Stamps
  <2>. QED BY <2>1 DEF ScratchInv, Sized, TeddyAssumption
<1>. QED BY <1>1, <1>2

\* An evaluation leaves stamps of the generation it ran in, or older ones.
LEMMA StampedKeeps ==
  ASSUME ScratchInv, db # NoDb, db' = db,
         NEW s, s = BumpGen(Stamps), StampedBy(s), DOMAIN memo' = DOMAIN memo
  PROVE  ScratchInv'
<1>1. /\ s.gen \in 1 .. GenMax
      /\ \A r \in Rules : s.ruleGen[r] \in 0 .. s.gen - 1
      /\ \A r \in Rules : s.evalDone[r] \in 0 .. s.gen - 1
  BY BumpAdvances
<1>2. Sized'
  BY DEF ScratchInv, Sized, StampedBy, Rules
<1>3. StampsInPast'
  <2>1. gen' \in 0 .. GenMax
    BY <1>1 DEF StampedBy, TeddyAssumption
  <2>2. ASSUME NEW r \in DOMAIN ruleGen' PROVE ruleGen'[r] \in 0 .. gen'
    BY <1>1, TeddyAssumption DEF StampedBy, TeddyAssumption
  <2>3. ASSUME NEW r \in DOMAIN evalDone' PROVE evalDone'[r] \in 0 .. gen'
    BY <1>1, TeddyAssumption DEF StampedBy, TeddyAssumption
  <2>. QED BY <2>1, <2>2, <2>3 DEF StampsInPast
<1>. QED BY <1>2, <1>3 DEF ScratchInv

\* What Finish does, without what it verified.
LEMMA FinishEffect ==
  ASSUME NEW view, NEW s, NEW order, NEW allowed, NEW max, NEW read,
         Finish(view, s, order, allowed, max, read)
  PROVE  /\ gen' = s.gen
         /\ DOMAIN evalDone' = Rules
         /\ \A r \in Rules : evalDone'[r] \in {s.gen, s.evalDone[r]}
         /\ \E reads : memo' = Remember(ClearMemo(memo), view, reads)
<1>1. PICK v : /\ gen' = s.gen
               /\ evalDone' = [r \in Rules |-> IF r \in v.verified THEN s.gen
                                               ELSE s.evalDone[r]]
               /\ memo' = Remember(ClearMemo(memo), view, read \cup v.reads)
  BY DEF Finish
<1>. QED BY <1>1

\* The memo after an evaluation holds values of its event, or nothing.
FreshMemo(ev) ==
  /\ DOMAIN memo' = DOMAIN memo
  /\ \A f \in DOMAIN memo :
       memo'[f] \in {Unresolved, View(ClearMemo(memo), ev)[f]}

LEMMA MemoFresh ==
  ASSUME NEW ev, NEW reads,
         memo' = Remember(ClearMemo(memo), View(ClearMemo(memo), ev), reads)
  PROVE  FreshMemo(ev)
<1>. DEFINE view == View(ClearMemo(memo), ev)
<1>. HIDE DEF view
<1>1. memo' = Remember(ClearMemo(memo), view, reads)
  BY DEF view
<1>2. DOMAIN memo' = DOMAIN memo
  BY <1>1 DEF Remember, ClearMemo
<1>3. \A f \in DOMAIN memo : memo'[f] \in {Unresolved, view[f]}
  BY <1>1 DEF Remember, ClearMemo
<1>. QED BY <1>2, <1>3 DEF view, FreshMemo

\* The three ways an evaluation runs leave stamps and a memo of this event.
LEMMA RunEffect ==
  ASSUME NEW ev, NEW max,
         ScratchInv, db # NoDb, db' = db,
         \/ \E sel : \/ RunPrefiltered(View(ClearMemo(memo), ev), sel, max)
                     \/ RunBuckets(View(ClearMemo(memo), ev), sel, max)
         \/ \E read : RunAllRules(View(ClearMemo(memo), ev), max, read)
  PROVE  ScratchInv' /\ FreshMemo(ev)
<1>. DEFINE view == View(ClearMemo(memo), ev)
<1>1. \E s : /\ s = BumpGen(Stamps)
             /\ DOMAIN ruleGen' = Rules
             /\ \A r \in Rules : ruleGen'[r] \in {s.gen, s.ruleGen[r]}
             /\ \E order, allowed, read : Finish(view, s, order, allowed, max, read)
  <2>. HIDE DEF view
  <2>1. CASE \E sel : RunPrefiltered(view, sel, max)
    <3>1. PICK sel : RunPrefiltered(view, sel, max)
      BY <2>1
    <3>2. PICK s \in {BumpGen(Stamps)} : \E p \in {Prefilter(view, sel, s)} :
            /\ ruleGen' = [r \in Rules |-> IF r \in p.stamped THEN s.gen ELSE s.ruleGen[r]]
            /\ \E order, allowed, read : Finish(view, s, order, allowed, max, read)
      BY <3>1 DEF RunPrefiltered
    <3>. QED BY <3>2
  <2>2. CASE \E sel : RunBuckets(view, sel, max)
    <3>1. PICK s : /\ s = BumpGen(Stamps)
                   /\ ruleGen' = s.ruleGen
                   /\ \E order, allowed, read : Finish(view, s, order, allowed, max, read)
      BY <2>2 DEF RunBuckets
    <3>2. DOMAIN s.ruleGen = Rules
      BY <3>1, BumpAdvances
    <3>. QED BY <3>1, <3>2
  <2>3. CASE \E read : RunAllRules(view, max, read)
    <3>1. PICK s : /\ s = BumpGen(Stamps)
                   /\ ruleGen' = s.ruleGen
                   /\ \E order, allowed, read : Finish(view, s, order, allowed, max, read)
      BY <2>3 DEF RunAllRules
    <3>2. DOMAIN s.ruleGen = Rules
      BY <3>1, BumpAdvances
    <3>. QED BY <3>1, <3>2
  <2>. QED BY <2>1, <2>2, <2>3 DEF view
<1>. HIDE DEF view
<1>2. PICK s : /\ s = BumpGen(Stamps)
               /\ DOMAIN ruleGen' = Rules
               /\ \A r \in Rules : ruleGen'[r] \in {s.gen, s.ruleGen[r]}
               /\ \E order, allowed, read : Finish(view, s, order, allowed, max, read)
  BY <1>1
<1>3. PICK order, allowed, read : Finish(view, s, order, allowed, max, read)
  BY <1>2
<1>4. /\ gen' = s.gen
      /\ DOMAIN evalDone' = Rules
      /\ \A r \in Rules : evalDone'[r] \in {s.gen, s.evalDone[r]}
      /\ \E reads : memo' = Remember(ClearMemo(memo), view, reads)
  BY <1>3, FinishEffect
<1>5. FreshMemo(ev)
  BY <1>4, MemoFresh DEF view
<1>6. StampedBy(s)
  BY <1>2, <1>4 DEF StampedBy
<1>7. ScratchInv'
  BY <1>2, <1>5, <1>6, StampedKeeps DEF FreshMemo
<1>. QED BY <1>5, <1>7

-----------------------------------------------------------------------------
\* sigma_eval_create makes arrays of the sizes it is given, all zero.
LEMMA CreateEffect ==
  ASSUME NEW f, NEW r, NEW n, Create(f, r, n)
  PROVE  /\ DOMAIN memo' = 1 .. f
         /\ DOMAIN ruleGen' = 1 .. r /\ DOMAIN evalDone' = 1 .. r
         /\ StampsInPast'
         /\ call' = NoCall
<1>1. /\ gen' = 0
      /\ memo' = [i \in 1 .. f |-> Unresolved]
      /\ ruleGen' = [i \in 1 .. r |-> 0]
      /\ evalDone' = [i \in 1 .. r |-> 0]
      /\ call' = NoCall
  BY DEF Create, NoResult
<1>2. 0 \in 0 .. GenMax /\ 0 \in 0 .. 0
  BY TeddyAssumption DEF TeddyAssumption
<1>. QED BY <1>1, <1>2 DEF StampsInPast

\* Every value remembered is the last event's, at every step.
MemoInv == ScratchInv /\ MemoIsEvent

LEMMA LoadKeeps ==
  ASSUME NEW i \in DOMAIN Artifacts, Load(i)
  PROVE  MemoInv'
<1>. DEFINE a == Artifacts[i]
<1>1. /\ db' = Loaded(a)
      /\ Create(Len(a.fields), Len(a.rules), Len(a.needles))
  BY DEF Load
<1>2. db'.rules = a.rules /\ db'.fields = a.fields
  BY <1>1 DEF Loaded
<1>3. DOMAIN a.rules = 1 .. Len(a.rules) /\ DOMAIN a.fields = 1 .. Len(a.fields)
  BY ArtifactAssumption DEF ArtifactAssumption
<1>. HIDE DEF a
<1>4. /\ DOMAIN memo' = 1 .. Len(a.fields)
      /\ DOMAIN ruleGen' = 1 .. Len(a.rules) /\ DOMAIN evalDone' = 1 .. Len(a.rules)
      /\ StampsInPast'
      /\ call' = NoCall
  BY <1>1, CreateEffect
<1>5. Sized'
  BY <1>2, <1>3, <1>4 DEF Sized, Rules
<1>. QED BY <1>4, <1>5 DEF MemoInv, ScratchInv, MemoIsEvent

LEMMA FreeKeeps ==
  ASSUME Free
  PROVE  MemoInv'
<1>1. db' = NoDb /\ Create(0, 0, 0)
  BY DEF Free
<1>2. StampsInPast' /\ call' = NoCall
  BY <1>1, CreateEffect
<1>3. Sized'
  BY <1>1 DEF Sized
<1>. QED BY <1>2, <1>3 DEF MemoInv, ScratchInv, MemoIsEvent

\* What a fresh memo remembers is what the callback gives for the event.
LEMMA FreshIsEvent ==
  ASSUME MemoInv, db # NoDb, db' = db,
         NEW ev, FreshMemo(ev), call'.event = ev
  PROVE  MemoIsEvent'
<1>1. DOMAIN memo = DOMAIN db.fields
  BY DEF MemoInv, ScratchInv, Sized
<1>2. ASSUME NEW f \in DOMAIN memo
      PROVE  View(ClearMemo(memo), ev)[f] = EventView'[f]
  <2>1. View(ClearMemo(memo), ev)[f] = Value(ev, db.fields[f])
    BY <1>1 DEF View, ClearMemo
  <2>2. EventView'[f] = Value(ev, db.fields[f])
    BY <1>1 DEF EventView, FieldsOf
  <2>. QED BY <2>1, <2>2
<1>. QED BY <1>2 DEF FreshMemo, MemoIsEvent

LEMMA RunKeeps ==
  ASSUME MemoInv, NEW ev \in Events, NEW max \in MaxHitsOf,
         Run(ev, max) \/ RunLinear(ev, max)
  PROVE  MemoInv'
<1>1. db # NoDb /\ db' = db /\ call'.event = ev
  BY DEF Run, RunLinear
<1>2. \/ \E sel : \/ RunPrefiltered(View(ClearMemo(memo), ev), sel, max)
                  \/ RunBuckets(View(ClearMemo(memo), ev), sel, max)
      \/ \E read : RunAllRules(View(ClearMemo(memo), ev), max, read)
  BY DEF Run, RunLinear
<1>3. ScratchInv' /\ FreshMemo(ev)
  BY <1>1, <1>2, RunEffect DEF MemoInv
<1>4. MemoIsEvent'
  BY <1>1, <1>3, FreshIsEvent
<1>. QED BY <1>3, <1>4 DEF MemoInv

\* Steps that touch neither database, scratch nor result.
LEMMA SameKeeps ==
  ASSUME MemoInv, UNCHANGED <<db, memo, gen, ruleGen, evalDone, call>>
  PROVE  MemoInv'
BY DEF MemoInv, ScratchInv, Sized, StampsInPast, Rules, MemoIsEvent, EventView,
       FieldsOf

\* The scratch of the matcher keeps its shape, its stamps stay in the past and its
\* memo on the event (sigma_eval_run, sigma_eval_run_linear, bump_eval_gen), over
\* any sequence of loads, events and settings.
THEOREM ScratchInvariant == Spec => []MemoInv
<1>1. Init => MemoInv
  BY TeddyAssumption
  DEF Init, MemoInv, ScratchInv, Sized, StampsInPast, MemoIsEvent, TeddyAssumption
<1>2. MemoInv /\ [Next]_vars => MemoInv'
  <2>. SUFFICES ASSUME MemoInv, [Next]_vars PROVE MemoInv'
    OBVIOUS
  <2>1. CASE \E i \in DOMAIN Artifacts : Load(i)
    BY <2>1, LoadKeeps
  <2>2. CASE Free
    BY <2>2, FreeKeeps
  <2>3. CASE \E m \in 0 .. 2 : SetPrefilter(m)
    BY <2>3, SameKeeps DEF SetPrefilter, result
  <2>4. CASE \E ev \in Events, max \in MaxHitsOf : Run(ev, max) \/ RunLinear(ev, max)
    BY <2>4, RunKeeps
  <2>5. CASE UNCHANGED vars
    BY <2>5, SameKeeps DEF vars, scratch, result
  <2>. QED BY <2>1, <2>2, <2>3, <2>4, <2>5 DEF Next
<1>. QED BY <1>1, <1>2, PTL DEF Spec

\* No stamp of a rule is ahead of the generation, whatever its width and however
\* often bump_eval_gen has wrapped it around.
THEOREM NoStampAhead == Spec => []StampsBehind
<1>1. MemoInv => StampsBehind
  <2>. SUFFICES ASSUME MemoInv PROVE StampsBehind
    OBVIOUS
  <2>1. StampsInPast
    BY DEF MemoInv, ScratchInv
  <2>2. ASSUME NEW n \in 0 .. gen PROVE n <= gen
    BY <2>1 DEF StampsInPast
  <2>. QED BY <2>1, <2>2 DEF StampsInPast, StampsBehind
<1>. QED BY <1>1, ScratchInvariant, PTL

\* Every value in the memo of resolve_field is the last event's: the resets of
\* vstate in sigma_eval_run and eval_linear lose no event.
THEOREM MemoOfLastEvent == Spec => []MemoIsEvent
<1>1. MemoInv => MemoIsEvent
  BY DEF MemoInv
<1>. QED BY <1>1, ScratchInvariant, PTL
-----------------------------------------------------------------------------
(***************************************************************************)
(* The types of the matcher.                                               *)
(***************************************************************************)

\* A slice within a table selects entries of it.
LEMMA SliceOfTable ==
  ASSUME NEW T, NEW table \in Seq(T), NEW s \in Slices, Within(table, s)
  PROVE  Slice(table, s) \in Seq(T) /\ ToSet(Slice(table, s)) \subseteq ToSet(table)
<1>1. PICK m, n : m = s.start /\ n = s.start + s.count - 1
  OBVIOUS
<1>2. m \in 1 .. Len(table) + 1 /\ n \in m - 1 .. Len(table) /\ n \in Int /\ m \in Int
  BY <1>1 DEF Slices, Within
<1>3. /\ SubSeq(table, m, n) \in Seq(T)
      /\ Len(SubSeq(table, m, n)) = n - m + 1
      /\ \A i \in 1 .. n - m + 1 : SubSeq(table, m, n)[i] = table[m + i - 1]
  BY <1>2, SubSeqProperties
<1>4. \A i \in 1 .. n - m + 1 : m + i - 1 \in DOMAIN table
  BY <1>2
<1>5. DOMAIN SubSeq(table, m, n) = 1 .. n - m + 1
  BY <1>3
<1>6. ToSet(SubSeq(table, m, n)) \subseteq ToSet(table)
  BY <1>3, <1>4, <1>5 DEF ToSet
<1>. QED BY <1>1, <1>3, <1>6 DEF Slice

\* What the loader has checked.
LEMMA LoadChecks ==
  ASSUME NEW a, LoadResult(a) = "ok"
  PROVE  RulesOk(a) /\ BucketsOk(a) /\ LitidxOk(a) /\ FwitOk(a)
BY DEF LoadResult

\* A posting and a witness credit a clause that the rule has.
LEMMA ClauseInMask ==
  ASSUME NEW a, ArtifactTypes(a), db = Loaded(a), NEW r, NEW c \in Nat \ {0},
         ClauseOk(a, r, c)
  PROVE  c \in FullMask(db, r)
<1>1. db.clauses = a.clauses /\ a.clauses \in Seq(Nat)
  BY DEF Loaded, ArtifactTypes
<1>2. r \in DOMAIN a.clauses /\ c <= a.clauses[r]
  BY DEF ClauseOk
<1>3. a.clauses[r] \in Nat /\ a.clauses # <<>>
  BY <1>1, <1>2
<1>. QED BY <1>1, <1>2, <1>3 DEF FullMask

LEMMA PostingsInMask ==
  ASSUME db \in Dbs, NEW k \in DOMAIN db.needles, NEW p \in ToSet(Refs(db, k))
  PROVE  /\ p \in ToSet(db.postRefs)
         /\ p.rule \in Rules
         /\ p.clause \in FullMask(db, p.rule)
         /\ p.field \in (DOMAIN db.fields) \cup {AnyField}
<1>1. PICK a : ArtifactTypes(a) /\ LoadResult(a) = "ok" /\ db = Loaded(a)
  BY DbOfArtifact
<1>2. /\ db.needles = a.needles /\ db.posts = a.posts /\ db.postRefs = a.postRefs
      /\ db.rules = a.rules /\ db.fields = a.fields
  BY <1>1 DEF Loaded
<1>3. LitidxOk(a)
  BY <1>1, LoadChecks
<1>4. p \in ToSet(a.postRefs)
  <2>1. a.posts[k] \in Slices /\ Within(a.postRefs, a.posts[k])
    BY <1>1, <1>2, <1>3 DEF ArtifactTypes, LitidxOk
  <2>2. PICK T : T = ToSet(a.postRefs)
    OBVIOUS
  <2>3. a["postRefs"] \in Seq(ToSet(a["postRefs"]))
    BY <1>1 DEF ArtifactTypes
  <2>4. a.postRefs \in Seq(T)
    BY <2>2, <2>3
  <2>5. ToSet(Slice(a.postRefs, a.posts[k])) \subseteq ToSet(a.postRefs)
    BY <2>1, <2>4, SliceOfTable
  <2>. QED BY <1>2, <2>5 DEF Refs
<1>5. PICK i \in DOMAIN a.postRefs : p = a.postRefs[i]
  BY <1>4 DEF ToSet
<1>6. /\ p.rule \in DOMAIN a.rules
      /\ p.field \in (DOMAIN a.fields) \cup {AnyField}
      /\ ClauseOk(a, p.rule, p.clause)
      /\ p.clause \in Nat \ {0}
  BY <1>1, <1>3, <1>5 DEF LitidxOk, ArtifactTypes
<1>7. p.clause \in FullMask(db, p.rule)
  BY <1>1, <1>6, ClauseInMask
<1>. QED BY <1>2, <1>4, <1>6, <1>7 DEF Rules

LEMMA WitnessesInMask ==
  ASSUME db \in Dbs, NEW w \in ToSet(db.fwit)
  PROVE  w.rule \in Rules /\ w.clause \in FullMask(db, w.rule) /\ w.field \in DOMAIN db.fields
<1>1. PICK a : ArtifactTypes(a) /\ LoadResult(a) = "ok" /\ db = Loaded(a)
  BY DbOfArtifact
<1>2. db.fwit = Witnesses(a) /\ db.rules = a.rules /\ db.fields = a.fields
  BY <1>1 DEF Loaded
<1>3. PICK i \in DOMAIN Witnesses(a) : w = Witnesses(a)[i]
  BY <1>2 DEF ToSet
<1>4. i \in DOMAIN a.fwit /\ w = a.fwit[i]
  BY <1>3 DEF Witnesses
<1>5. /\ w.rule \in DOMAIN a.rules /\ w.field \in DOMAIN a.fields
      /\ ClauseOk(a, w.rule, w.clause)
  BY <1>1, <1>3, <1>4, LoadChecks DEF FwitOk
<1>6. w.clause \in Nat \ {0}
  BY <1>1, <1>4 DEF ArtifactTypes
<1>7. w.clause \in FullMask(db, w.rule)
  BY <1>1, <1>5, <1>6, ClauseInMask
<1>. QED BY <1>2, <1>5, <1>7 DEF Rules

\* What an event credits are clauses that the rules have.
LEMMA CreditsInMask ==
  ASSUME db \in Dbs, NEW view, NEW found, \A m \in found : m[2] \in DOMAIN db.needles,
         NEW c \in Credits(view, found)
  PROVE  c[1] \in Rules /\ c[2] \in FullMask(db, c[1])
<1>1. CASE \E w \in ToSet(db.fwit) : c = <<w.rule, w.clause>>
  BY <1>1, WitnessesInMask
<1>2. CASE \E m \in found : \E p \in ToSet(Refs(db, m[2])) : c = <<p.rule, p.clause>>
  BY <1>2, PostingsInMask
<1>. QED BY <1>1, <1>2 DEF Credits

\* The values of an event's fields are words, or none.
LEMMA ViewTypes ==
  ASSUME db \in Dbs, Sized, NEW ev \in Events
  PROVE  View(ClearMemo(memo), ev) \in Views(db)
<1>1. DOMAIN memo = DOMAIN db.fields
  BY NoDbAssumption DEF NoDbAssumption, Sized
<1>2. ASSUME NEW f \in DOMAIN db.fields
      PROVE  View(ClearMemo(memo), ev)[f] \in {NoVal} \cup Seq(Byte)
  <2>1. View(ClearMemo(memo), ev)[f] = Value(ev, db.fields[f])
    BY <1>1 DEF View, ClearMemo
  <2>. QED BY <2>1, EventAssumption DEF EventAssumption, Value
<1>3. View(ClearMemo(memo), ev)
        = [f \in DOMAIN db.fields |-> View(ClearMemo(memo), ev)[f]]
  BY DEF View
<1>. QED BY <1>2, <1>3 DEF Views

\* What the matcher knows beyond its stamps: a database that was loaded, a scratch
\* of its sizes, and masks of clauses that the rules have.
Typed ==
  /\ db \in {NoDb} \cup Dbs
  /\ mode \in 0 .. 2
  /\ call \in {NoCall} \cup Spec0!Calls
  /\ IF db = NoDb
     THEN /\ memo = <<>> /\ ruleGen = <<>> /\ evalDone = <<>>
          /\ tscr \in Scratches(0)
     ELSE /\ tscr \in Scratches(Len(db.needles))
          /\ \A r \in Rules : ruleMask[r] \subseteq FullMask(db, r)

MatchInv == ScratchInv /\ Typed

\* The masks of an evaluation: what the event credits, over what the rule kept.
LEMMA MasksStay ==
  ASSUME db \in Dbs, \A r \in Rules : ruleMask[r] \subseteq FullMask(db, r),
         NEW view, NEW found, \A m \in found : m[2] \in DOMAIN db.needles, NEW s,
         NEW r \in Rules
  PROVE  CreditedMask(s, r, Credits(view, found)) \subseteq FullMask(db, r)
<1>1. PICK credits : credits = Credits(view, found)
  OBVIOUS
<1>2. \A c \in credits : c[2] \in FullMask(db, c[1])
  BY <1>1, CreditsInMask
<1>3. {c[2] : c \in {d \in credits : d[1] = r}} \subseteq FullMask(db, r)
  BY <1>2
<1>4. CreditedMask(s, r, credits) \subseteq FullMask(db, r)
  BY <1>3 DEF CreditedMask
<1>. QED BY <1>1, <1>4

\* A prefiltered evaluation leaves such a scratch and such masks.
LEMMA PrefilteredTypes ==
  ASSUME db \in Dbs, NEW view \in Views(db), NEW sel, NEW max,
         tscr \in Scratches(Len(db.needles)),
         \A r \in Rules : ruleMask[r] \subseteq FullMask(db, r),
         RunPrefiltered(view, sel, max)
  PROVE  /\ tscr' \in Scratches(Len(db.needles))
         /\ \A r \in Rules : ruleMask'[r] \subseteq FullMask(db, r)
<1>1. PICK s : /\ ruleMask' = Prefilter(view, sel, s).mask
               /\ tscr' = Prefilter(view, sel, s).scr
  BY DEF RunPrefiltered
<1>2. PICK scan : scan = Scan(view, sel)
  OBVIOUS
<1>3. scan \in ScanStates(db)
  BY <1>2, ScanExact
<1>4. tscr' = scan.scr
  BY <1>1, <1>2 DEF Prefilter
<1>5. PICK found : found = ToSet(scan.marks)
  OBVIOUS
<1>6. \A r \in Rules : ruleMask'[r] = CreditedMask(s, r, Credits(view, found))
  BY <1>1, <1>2, <1>5 DEF Prefilter
<1>7. \A m \in found : m[2] \in DOMAIN db.needles
  <2>1. PICK M : M = (DOMAIN db.fields) \X (DOMAIN db.needles)
    OBVIOUS
  <2>2. scan.marks \in Seq(M)
    BY <1>3, <2>1 DEF ScanStates, Marks
  <2>3. found \subseteq M
    BY <1>5, <2>2 DEF ToSet
  <2>. QED BY <2>1, <2>3
<1>8. \A r \in Rules : ruleMask'[r] \subseteq FullMask(db, r)
  BY <1>6, <1>7, MasksStay
<1>. QED BY <1>3, <1>4, <1>8 DEF ScanStates

LEMMA RunTypes ==
  ASSUME MatchInv, NEW ev \in Events, NEW max \in MaxHitsOf,
         Run(ev, max) \/ RunLinear(ev, max)
  PROVE  MatchInv'
<1>1. db # NoDb /\ db' = db /\ mode' = mode
  BY DEF Run, RunLinear
<1>2. db \in Dbs /\ tscr \in Scratches(Len(db.needles))
      /\ \A r \in Rules : ruleMask[r] \subseteq FullMask(db, r)
  BY <1>1 DEF MatchInv, Typed
<1>3. call' \in Spec0!Calls
  <2>1. PICK b \in BOOLEAN : call' = [event |-> ev, linear |-> b, max |-> max]
    BY DEF Run, RunLinear
  <2>. QED BY <2>1 DEF Spec0!Calls
<1>4. PICK view : view = View(ClearMemo(memo), ev)
  OBVIOUS
<1>5. view \in Views(db)
  BY <1>2, <1>4, ViewTypes DEF MatchInv, ScratchInv
<1>6. \/ \E sel : RunPrefiltered(view, sel, max) \/ RunBuckets(view, sel, max)
      \/ \E read : RunAllRules(view, max, read)
  BY <1>4 DEF Run, RunLinear
<1>7. ScratchInv'
  BY <1>1, <1>4, <1>6, RunEffect DEF MatchInv
<1>8. /\ tscr' \in Scratches(Len(db.needles))
      /\ \A r \in Rules : ruleMask'[r] \subseteq FullMask(db, r)
  <2>1. CASE \E sel : RunPrefiltered(view, sel, max)
    BY <1>2, <1>5, <2>1, PrefilteredTypes
  <2>2. CASE UNCHANGED <<ruleMask, tscr>>
    BY <1>2, <2>2
  <2>. QED BY <1>6, <2>1, <2>2 DEF RunBuckets, RunAllRules
<1>9. Typed'
  BY <1>1, <1>2, <1>3, <1>8 DEF MatchInv, Typed, Rules, FullMask
<1>. QED BY <1>7, <1>9 DEF MatchInv

LEMMA LoadTypes ==
  ASSUME NEW i \in DOMAIN Artifacts, Load(i)
  PROVE  MatchInv'
<1>. DEFINE a == Artifacts[i]
<1>1. ScratchInv'
  BY LoadKeeps DEF MemoInv
<1>2. /\ db' = Loaded(a) /\ LoadResult(a) = "ok"
      /\ Create(Len(a.fields), Len(a.rules), Len(a.needles))
  BY DEF Load
<1>3. db' \in Dbs /\ db' # NoDb
  <2>1. a \in ToSet(Artifacts)
    BY DEF ToSet
  <2>2. db' \in Dbs
    BY <1>2, <2>1 DEF Dbs
  <2>. QED BY <2>2, NoDbAssumption DEF NoDbAssumption
<1>4. ArtifactTypes(a)
  BY ArtifactAssumption DEF ArtifactAssumption
<1>. HIDE DEF a
<1>5. mode' = 1 /\ call' = NoCall /\ tscr' = NewScratch(Len(a.needles))
      /\ ruleMask' = [r \in 1 .. Len(a.rules) |-> {}]
  BY <1>2 DEF Create, NoResult
<1>6. Len(a.needles) \in Nat /\ DOMAIN a.rules = 1 .. Len(a.rules)
  <2>1. a["rules"] \in Seq(ToSet(a["rules"])) /\ a.needles \in Seq(Seq(Byte))
    BY <1>4 DEF ArtifactTypes
  <2>. QED BY <2>1
<1>7. db'.needles = a.needles /\ db'.rules = a.rules
  BY <1>2 DEF Loaded
<1>8. tscr' \in Scratches(Len(db'.needles))
  BY <1>5, <1>6, <1>7, NewScratchTypes
<1>9. \A r \in Rules' : ruleMask'[r] = {}
  BY <1>5, <1>6, <1>7 DEF Rules
<1>10. Typed'
  <2>1. mode' \in 0 .. 2 /\ call' \in {NoCall} \cup Spec0!Calls
    BY <1>5
  <2>2. \A r \in Rules' : ruleMask'[r] \subseteq FullMask(db, r)'
    BY <1>9
  <2>. QED BY <1>3, <1>8, <2>1, <2>2 DEF Typed
<1>. QED BY <1>1, <1>10 DEF MatchInv

LEMMA FreeTypes ==
  ASSUME Free
  PROVE  MatchInv'
<1>1. ScratchInv'
  BY FreeKeeps DEF MemoInv
<1>2. /\ db' = NoDb /\ mode' = 1 /\ call' = NoCall
      /\ memo' = [i \in 1 .. 0 |-> Unresolved]
      /\ ruleGen' = [i \in 1 .. 0 |-> 0]
      /\ evalDone' = [i \in 1 .. 0 |-> 0]
      /\ tscr' = NewScratch(0)
  BY DEF Free, Create, NoResult
<1>3. memo' = <<>> /\ ruleGen' = <<>> /\ evalDone' = <<>>
  BY <1>2
<1>4. tscr' \in Scratches(0)
  BY <1>2, NewScratchTypes
<1>5. Typed'
  BY <1>2, <1>3, <1>4 DEF Typed
<1>. QED BY <1>1, <1>5 DEF MatchInv

\* Steps that touch neither the database nor what is typed of the scratch.
LEMMA SameTypes ==
  ASSUME MatchInv, mode' \in 0 .. 2,
         UNCHANGED <<db, memo, gen, ruleGen, ruleMask, evalDone, tscr, call>>
  PROVE  MatchInv'
BY DEF MatchInv, ScratchInv, Sized, StampsInPast, Rules, Typed, FullMask

\* The database, the masks and both scratches keep their types over any sequence of
\* loads, events and settings (sigma_eval_create, prefilter_candidates, teddy_confirm).
THEOREM MatcherIsTyped == Spec => []MatchInv
<1>1. Init => MatchInv
  <2>. SUFFICES ASSUME Init PROVE MatchInv
    OBVIOUS
  <2>1. NewScratch(0) \in Scratches(0)
    BY NewScratchTypes
  <2>2. ScratchInv
    BY TeddyAssumption DEF Init, ScratchInv, Sized, StampsInPast, TeddyAssumption
  <2>3. Typed
    BY <2>1 DEF Init, Typed
  <2>. QED BY <2>2, <2>3 DEF MatchInv
<1>2. MatchInv /\ [Next]_vars => MatchInv'
  <2>. SUFFICES ASSUME MatchInv, [Next]_vars PROVE MatchInv'
    OBVIOUS
  <2>1. CASE \E i \in DOMAIN Artifacts : Load(i)
    BY <2>1, LoadTypes
  <2>2. CASE Free
    BY <2>2, FreeTypes
  <2>3. CASE \E m \in 0 .. 2 : SetPrefilter(m)
    BY <2>3, SameTypes DEF SetPrefilter, result
  <2>4. CASE \E ev \in Events, max \in MaxHitsOf : Run(ev, max) \/ RunLinear(ev, max)
    BY <2>4, RunTypes
  <2>5. CASE UNCHANGED vars
    <3>1. mode' \in 0 .. 2
      BY <2>5 DEF MatchInv, Typed, vars, scratch
    <3>. QED BY <2>5, <3>1, SameTypes DEF vars, scratch, result
  <2>. QED BY <2>1, <2>2, <2>3, <2>4, <2>5 DEF Next
<1>. QED BY <1>1, <1>2, PTL DEF Spec

\* The types the run checks; above all, no rule is credited a clause it lacks, so
\* that no mask can pass for complete, or fail to, by a clause of another rule.
THEOREM MatcherTypes == Spec => []TypeOK
<1>1. MatchInv => TypeOK
  <2>. SUFFICES ASSUME MatchInv PROVE TypeOK
    OBVIOUS
  <2>1. tscr.gen \in 0 .. GenMax
    BY DEF MatchInv, Typed, Scratches
  <2>2. gen \in 0 .. GenMax /\ GenMax \in Nat
    BY TeddyAssumption DEF MatchInv, ScratchInv, StampsInPast, TeddyAssumption
  <2>3. ASSUME db # NoDb, NEW r \in Rules
        PROVE  ruleGen[r] \in 0 .. GenMax /\ evalDone[r] \in 0 .. GenMax
    <3>1. r \in DOMAIN ruleGen /\ r \in DOMAIN evalDone
      BY <2>3 DEF MatchInv, ScratchInv, Sized
    <3>2. ruleGen[r] \in 0 .. gen /\ evalDone[r] \in 0 .. gen
      BY <3>1 DEF MatchInv, ScratchInv, StampsInPast
    <3>. QED BY <2>2, <3>2
  <2>. QED BY <2>1, <2>2, <2>3 DEF MatchInv, Typed, ScratchInv, Sized, TypeOK
<1>. QED BY <1>1, MatcherIsTyped, PTL

\* No stamp of a needle is ahead of the scans', however often sigma_teddy_scratch_next
\* has wrapped the counter around: no scan takes an old find for its own.
THEOREM NoNeedleStampAhead == Spec => []NeedleStampsBehind
<1>1. MatchInv => NeedleStampsBehind
  BY DEF MatchInv, Typed, Scratches, NeedleStampsBehind
<1>. QED BY <1>1, MatcherIsTyped, PTL

-----------------------------------------------------------------------------
(***************************************************************************)
(* The buckets of an event, their rules, and those that are verified.      *)
(***************************************************************************)

\* The buckets of an event's tokens, one by one.
TokenBuckets(view, ev) ==
  FoldLeft(LAMBDA sel, i : AddRoute(view, ev, sel, i), <<>>,
           [i \in DOMAIN RouteNames |-> i])

RoutesStayIn(P, view, ev, n) ==
  \A sel \in P, i \in 1 .. n : AddRoute(view, ev, sel, i) \in P

LEMMA RoutesTrace ==
  ASSUME NEW P, <<>> \in P, NEW n \in Nat, DOMAIN RouteNames = 1 .. n,
         NEW view, NEW ev, RoutesStayIn(P, view, ev, n)
  PROVE  \E h \in [0 .. n -> P] :
           /\ h[0] = <<>>
           /\ \A i \in 1 .. n : h[i] = AddRoute(view, ev, h[i - 1], i)
           /\ TokenBuckets(view, ev) = h[n]
<1> DEFINE all == [i \in DOMAIN RouteNames |-> i]
           Eq(f) == f = [S \in SUBSET (DOMAIN all) |->
                           IF S = {} THEN <<>>
                           ELSE AddRoute(view, ev, f[S \ {Max(S)}], all[Max(S)])]
           it == CHOOSE f : Eq(f)
           g == [x \in P \X (1 .. n) |-> AddRoute(view, ev, x[1], all[x[2]])]
<1>1. n \in Nat /\ DOMAIN all = 1 .. n /\ <<>> \in P
  OBVIOUS
<1>2. TokenBuckets(view, ev) = it[DOMAIN all]
  BY DEF TokenBuckets, FoldLeft, MapThenFoldSet
<1>3. g \in [P \X (1 .. n) -> P]
  BY <1>1 DEF RoutesStayIn
<1>4. PICK f : Solves(f, P, <<>>, g, n)
  <2> HIDE DEF g, all
  <2> QED
    BY <1>1, <1>3, FoldExists
<1>5. \A S \in SUBSET (1 .. n) : S # {} => Max(S) \in 1 .. n
  <2>1. \A S \in SUBSET (1 .. n) : S \in SUBSET (0 .. n)
    BY <1>1
  <2>2. QED
    BY <1>1, <2>1, Greatest
<1>6. \A x \in P, i \in 1 .. n : g[<<x, i>>] = AddRoute(view, ev, x, all[i])
  OBVIOUS
<1>7. Eq(f)
  <2> HIDE DEF g, all
  <2>1. ASSUME NEW S \in SUBSET (1 .. n), S # {}
        PROVE  f[S] = AddRoute(view, ev, f[S \ {Max(S)}], all[Max(S)])
    <3>1. f[S \ {Max(S)}] \in P /\ f[S] = g[<<f[S \ {Max(S)}], Max(S)>>]
      BY <1>4, <2>1 DEF Solves
    <3>2. QED
      BY <1>5, <1>6, <2>1, <3>1
  <2>2. f[{}] = <<>> /\ f = [S \in SUBSET (1 .. n) |-> f[S]]
    BY <1>4 DEF Solves
  <2>3. QED
    BY <1>1, <2>1, <2>2
<1>8. Eq(it)
  <2> HIDE DEF Eq
  <2> QED
    BY <1>7
<1>9. it[{}] = <<>>
  BY <1>8
<1>10. ASSUME NEW S \in SUBSET (1 .. n), S # {}, it[S \ {Max(S)}] \in P
       PROVE  it[S] = g[<<it[S \ {Max(S)}], Max(S)>>]
  <2> HIDE DEF it, g, all
  <2>1. it[S] = AddRoute(view, ev, it[S \ {Max(S)}], all[Max(S)])
    BY <1>1, <1>8, <1>10
  <2>2. QED
    BY <1>5, <1>6, <1>10, <2>1
<1>11. StepsThrough(it, P, <<>>, g, n)
  <2> HIDE DEF it, g, all
  <2>1. Obeys(it, P, <<>>, g, n)
    BY <1>9, <1>10 DEF Obeys
  <2>2. QED
    BY <1>1, <1>3, <2>1, FoldTrace
<1> DEFINE h == [k \in 0 .. n |-> it[1 .. k]]
<1>12. \A i \in 1 .. n : all[i] = i
  OBVIOUS
<1> HIDE DEF it, g, all
<1>13. ASSUME NEW i \in 1 .. n PROVE h[i] = AddRoute(view, ev, h[i - 1], i)
  <2>1. i \in 1 .. n /\ i \in 0 .. n /\ i - 1 \in 0 .. n
    BY <1>1
  <2>2. it[1 .. i] = g[<<it[1 .. i - 1], i>>] /\ it[1 .. i - 1] \in P
    BY <1>11, <2>1 DEF StepsThrough
  <2>3. it[1 .. i] = AddRoute(view, ev, it[1 .. i - 1], i)
    BY <1>6, <1>12, <2>1, <2>2
  <2>4. QED
    BY <2>1, <2>3
<1>14. h \in [0 .. n -> P] /\ h[0] = <<>> /\ h[n] = it[1 .. n]
  BY <1>1, <1>11 DEF StepsThrough
<1>15. QED
  <2> HIDE DEF h
  <2> QED
    BY <1>1, <1>2, <1>13, <1>14

\* The rules of a list of buckets, one bucket after another.
AddRules(acc, b) == acc \o Slice(db.bucketIdx, db.buckets[b])

RulesStayIn(P, sel) == \A acc \in P, i \in DOMAIN sel : AddRules(acc, sel[i]) \in P

LEMMA BucketsTrace ==
  ASSUME NEW P, <<>> \in P, NEW n \in Nat, NEW sel, DOMAIN sel = 1 .. n,
         RulesStayIn(P, sel)
  PROVE  \E h \in [0 .. n -> P] :
           /\ h[0] = <<>>
           /\ \A i \in 1 .. n : h[i] = AddRules(h[i - 1], sel[i])
           /\ BucketRules(sel) = h[n]
<1> DEFINE all == sel
           Eq(f) == f = [S \in SUBSET (DOMAIN all) |->
                           IF S = {} THEN <<>>
                           ELSE AddRules(f[S \ {Max(S)}], all[Max(S)])]
           it == CHOOSE f : Eq(f)
           g == [x \in P \X (1 .. n) |-> AddRules(x[1], all[x[2]])]
<1>1. n \in Nat /\ DOMAIN all = 1 .. n /\ <<>> \in P
  OBVIOUS
<1>2. BucketRules(sel) = it[DOMAIN all]
  BY DEF BucketRules, AddRules, FoldLeft, MapThenFoldSet
<1>3. g \in [P \X (1 .. n) -> P]
  BY <1>1 DEF RulesStayIn
<1>4. PICK f : Solves(f, P, <<>>, g, n)
  <2> HIDE DEF g, all
  <2> QED
    BY <1>1, <1>3, FoldExists
<1>5. \A S \in SUBSET (1 .. n) : S # {} => Max(S) \in 1 .. n
  <2>1. \A S \in SUBSET (1 .. n) : S \in SUBSET (0 .. n)
    BY <1>1
  <2>2. QED
    BY <1>1, <2>1, Greatest
<1>6. \A x \in P, i \in 1 .. n : g[<<x, i>>] = AddRules(x, all[i])
  OBVIOUS
<1>7. Eq(f)
  <2> HIDE DEF g, all
  <2>1. ASSUME NEW S \in SUBSET (1 .. n), S # {}
        PROVE  f[S] = AddRules(f[S \ {Max(S)}], all[Max(S)])
    <3>1. f[S \ {Max(S)}] \in P /\ f[S] = g[<<f[S \ {Max(S)}], Max(S)>>]
      BY <1>4, <2>1 DEF Solves
    <3>2. QED
      BY <1>5, <1>6, <2>1, <3>1
  <2>2. f[{}] = <<>> /\ f = [S \in SUBSET (1 .. n) |-> f[S]]
    BY <1>4 DEF Solves
  <2>3. QED
    BY <1>1, <2>1, <2>2
<1>8. Eq(it)
  <2> HIDE DEF Eq
  <2> QED
    BY <1>7
<1>9. it[{}] = <<>>
  BY <1>8
<1>10. ASSUME NEW S \in SUBSET (1 .. n), S # {}, it[S \ {Max(S)}] \in P
       PROVE  it[S] = g[<<it[S \ {Max(S)}], Max(S)>>]
  <2> HIDE DEF it, g, all
  <2>1. it[S] = AddRules(it[S \ {Max(S)}], all[Max(S)])
    BY <1>1, <1>8, <1>10
  <2>2. QED
    BY <1>5, <1>6, <1>10, <2>1
<1>11. StepsThrough(it, P, <<>>, g, n)
  <2> HIDE DEF it, g, all
  <2>1. Obeys(it, P, <<>>, g, n)
    BY <1>9, <1>10 DEF Obeys
  <2>2. QED
    BY <1>1, <1>3, <2>1, FoldTrace
<1> DEFINE h == [k \in 0 .. n |-> it[1 .. k]]
<1>12. \A i \in 1 .. n : all[i] = sel[i]
  OBVIOUS
<1> HIDE DEF it, g, all
<1>13. ASSUME NEW i \in 1 .. n PROVE h[i] = AddRules(h[i - 1], sel[i])
  <2>1. i \in 1 .. n /\ i \in 0 .. n /\ i - 1 \in 0 .. n
    BY <1>1
  <2>2. it[1 .. i] = g[<<it[1 .. i - 1], i>>] /\ it[1 .. i - 1] \in P
    BY <1>11, <2>1 DEF StepsThrough
  <2>3. it[1 .. i] = AddRules(it[1 .. i - 1], sel[i])
    BY <1>6, <1>12, <2>1, <2>2
  <2>4. QED
    BY <2>1, <2>3
<1>14. h \in [0 .. n -> P] /\ h[0] = <<>> /\ h[n] = it[1 .. n]
  BY <1>1, <1>11 DEF StepsThrough
<1>15. QED
  <2> HIDE DEF h
  <2> QED
    BY <1>1, <1>2, <1>13, <1>14

\* The rules verified, rule by rule.
VerifyStaysIn(P, s, order, allowed) ==
  \A acc \in P, i \in DOMAIN order : VerifyOne(s, allowed, acc, order[i]) \in P

LEMMA VerifyTrace ==
  ASSUME NEW P, <<>> \in P, NEW n \in Nat, NEW order, DOMAIN order = 1 .. n,
         NEW s, NEW allowed, VerifyStaysIn(P, s, order, allowed)
  PROVE  \E h \in [0 .. n -> P] :
           /\ h[0] = <<>>
           /\ \A i \in 1 .. n : h[i] = VerifyOne(s, allowed, h[i - 1], order[i])
           /\ Verify(s, order, allowed) = h[n]
<1> DEFINE all == order
           Eq(f) == f = [S \in SUBSET (DOMAIN all) |->
                           IF S = {} THEN <<>>
                           ELSE VerifyOne(s, allowed, f[S \ {Max(S)}], all[Max(S)])]
           it == CHOOSE f : Eq(f)
           g == [x \in P \X (1 .. n) |-> VerifyOne(s, allowed, x[1], all[x[2]])]
<1>1. n \in Nat /\ DOMAIN all = 1 .. n /\ <<>> \in P
  OBVIOUS
<1>2. Verify(s, order, allowed) = it[DOMAIN all]
  BY DEF Verify, FoldLeft, MapThenFoldSet
<1>3. g \in [P \X (1 .. n) -> P]
  BY <1>1 DEF VerifyStaysIn
<1>4. PICK f : Solves(f, P, <<>>, g, n)
  <2> HIDE DEF g, all
  <2> QED
    BY <1>1, <1>3, FoldExists
<1>5. \A S \in SUBSET (1 .. n) : S # {} => Max(S) \in 1 .. n
  <2>1. \A S \in SUBSET (1 .. n) : S \in SUBSET (0 .. n)
    BY <1>1
  <2>2. QED
    BY <1>1, <2>1, Greatest
<1>6. \A x \in P, i \in 1 .. n : g[<<x, i>>] = VerifyOne(s, allowed, x, all[i])
  OBVIOUS
<1>7. Eq(f)
  <2> HIDE DEF g, all
  <2>1. ASSUME NEW S \in SUBSET (1 .. n), S # {}
        PROVE  f[S] = VerifyOne(s, allowed, f[S \ {Max(S)}], all[Max(S)])
    <3>1. f[S \ {Max(S)}] \in P /\ f[S] = g[<<f[S \ {Max(S)}], Max(S)>>]
      BY <1>4, <2>1 DEF Solves
    <3>2. QED
      BY <1>5, <1>6, <2>1, <3>1
  <2>2. f[{}] = <<>> /\ f = [S \in SUBSET (1 .. n) |-> f[S]]
    BY <1>4 DEF Solves
  <2>3. QED
    BY <1>1, <2>1, <2>2
<1>8. Eq(it)
  <2> HIDE DEF Eq
  <2> QED
    BY <1>7
<1>9. it[{}] = <<>>
  BY <1>8
<1>10. ASSUME NEW S \in SUBSET (1 .. n), S # {}, it[S \ {Max(S)}] \in P
       PROVE  it[S] = g[<<it[S \ {Max(S)}], Max(S)>>]
  <2> HIDE DEF it, g, all
  <2>1. it[S] = VerifyOne(s, allowed, it[S \ {Max(S)}], all[Max(S)])
    BY <1>1, <1>8, <1>10
  <2>2. QED
    BY <1>5, <1>6, <1>10, <2>1
<1>11. StepsThrough(it, P, <<>>, g, n)
  <2> HIDE DEF it, g, all
  <2>1. Obeys(it, P, <<>>, g, n)
    BY <1>9, <1>10 DEF Obeys
  <2>2. QED
    BY <1>1, <1>3, <2>1, FoldTrace
<1> DEFINE h == [k \in 0 .. n |-> it[1 .. k]]
<1>12. \A i \in 1 .. n : all[i] = order[i]
  OBVIOUS
<1> HIDE DEF it, g, all
<1>13. ASSUME NEW i \in 1 .. n PROVE h[i] = VerifyOne(s, allowed, h[i - 1], order[i])
  <2>1. i \in 1 .. n /\ i \in 0 .. n /\ i - 1 \in 0 .. n
    BY <1>1
  <2>2. it[1 .. i] = g[<<it[1 .. i - 1], i>>] /\ it[1 .. i - 1] \in P
    BY <1>11, <2>1 DEF StepsThrough
  <2>3. it[1 .. i] = VerifyOne(s, allowed, it[1 .. i - 1], order[i])
    BY <1>6, <1>12, <2>1, <2>2
  <2>4. QED
    BY <2>1, <2>3
<1>14. h \in [0 .. n -> P] /\ h[0] = <<>> /\ h[n] = it[1 .. n]
  BY <1>1, <1>11 DEF StepsThrough
<1>15. QED
  <2> HIDE DEF h
  <2> QED
    BY <1>1, <1>2, <1>13, <1>14

LEMMA AppendSet ==
  ASSUME NEW S, NEW u \in Seq(S), NEW x \in S
  PROVE  Append(u, x) \in Seq(S) /\ ToSet(Append(u, x)) = ToSet(u) \cup {x}
<1>. DEFINE w == Append(u, x)
<1>1. /\ w \in Seq(S) /\ DOMAIN w = 1 .. Len(u) + 1 /\ DOMAIN u = 1 .. Len(u)
      /\ Len(u) \in Nat
      /\ \A i \in 1 .. Len(u) : w[i] = u[i]
      /\ w[Len(u) + 1] = x
  OBVIOUS
<1>. HIDE DEF w
<1>2. \A y : y \in ToSet(w) <=> \E i \in 1 .. Len(u) + 1 : w[i] = y
  BY <1>1 DEF ToSet
<1>3. \A y : y \in ToSet(u) <=> \E i \in 1 .. Len(u) : u[i] = y
  BY <1>1 DEF ToSet
<1>4. \A i : i \in 1 .. Len(u) + 1 <=> i \in 1 .. Len(u) \/ i = Len(u) + 1
  BY <1>1
<1>5. ToSet(w) = ToSet(u) \cup {x}
  BY <1>1, <1>2, <1>3, <1>4
<1>. QED BY <1>1, <1>5 DEF w

\* The keys of the buckets, and the rules of each.
LEMMA BucketTables ==
  ASSUME db \in Dbs
  PROVE  /\ db.avBucket \in (DOMAIN db.keys) \cup {NoBucket}
         /\ DOMAIN db.bucketFields = DOMAIN db.keys
         /\ \A b \in DOMAIN db.keys :
              /\ Slice(db.bucketIdx, db.buckets[b]) \in Seq(Rules)
              /\ db.bucketFields[b] = IF AnyFieldPosted(db) \/ db.needles = <<>>
                                      THEN DOMAIN db.fields ELSE FieldsOfBucket(db, b)
<1>1. PICK a : ArtifactTypes(a) /\ LoadResult(a) = "ok" /\ db = Loaded(a)
  BY DbOfArtifact
<1>2. /\ db.keys = a.keys /\ db.buckets = a.buckets /\ db.bucketIdx = a.bucketIdx
      /\ db.rules = a.rules /\ db.fields = a.fields /\ db.needles = a.needles
      /\ db.postRefs = a.postRefs /\ db.sels = a.sels /\ db.preds = a.preds
      /\ db.avBucket = IndexIn(a.keys, <<>>)
      /\ db.bucketFields = [b \in DOMAIN a.keys |->
                              IF AnyFieldPosted(a) \/ a.needles = <<>> THEN DOMAIN a.fields
                              ELSE FieldsOfBucket(a, b)]
  BY <1>1 DEF Loaded
<1>3. AnyFieldPosted(db) <=> AnyFieldPosted(a)
  BY <1>2 DEF AnyFieldPosted
<1>4. \A b : FieldsOfBucket(db, b) = FieldsOfBucket(a, b)
  BY <1>2 DEF FieldsOfBucket, FieldsOfRule
<1>5. ASSUME NEW b \in DOMAIN db.keys
      PROVE  Slice(db.bucketIdx, db.buckets[b]) \in Seq(Rules)
  <2>1. a.buckets[b] \in Slices /\ Within(a.bucketIdx, a.buckets[b])
    BY <1>1, <1>2, <1>5, LoadChecks DEF ArtifactTypes, BucketsOk
  <2>2. a["bucketIdx"] \in Seq(ToSet(a["bucketIdx"]))
    BY <1>1 DEF ArtifactTypes
  <2>3. \A i \in DOMAIN a.bucketIdx : a.bucketIdx[i] \in DOMAIN a.rules
    BY <1>1, LoadChecks DEF BucketsOk
  <2>4. PICK R : R = Rules
    OBVIOUS
  <2>5. a.bucketIdx \in Seq(R)
    BY <1>2, <2>2, <2>3, <2>4 DEF Rules
  <2>6. Slice(a.bucketIdx, a.buckets[b]) \in Seq(R)
    BY <2>1, <2>5, SliceOfTable
  <2>. QED BY <1>2, <2>4, <2>6
<1>6. db.avBucket \in (DOMAIN db.keys) \cup {NoBucket}
  BY <1>2 DEF IndexIn, NoBucket
<1>. QED BY <1>2, <1>3, <1>4, <1>5, <1>6

\* The buckets an event selects are buckets of the database.
LEMMA AddsBucket ==
  ASSUME NEW B, NEW sel \in Seq(B), NEW b \in B \cup {NoBucket}
  PROVE  AddBucket(sel, b) \in Seq(B)
<1>1. CASE b \in B
  <2>1. Append(sel, b) \in Seq(B)
    BY <1>1, AppendSet
  <2>. QED BY <2>1 DEF AddBucket
<1>2. CASE b = NoBucket
  BY <1>2 DEF AddBucket
<1>. QED BY <1>1, <1>2

LEMMA SelectedBuckets ==
  ASSUME db \in Dbs, NEW view, NEW ev
  PROVE  SelectBuckets(view, ev) \in Seq(DOMAIN db.keys)
<1>1. PICK B : B = DOMAIN db.keys
  OBVIOUS
<1>2. PICK P : P = Seq(B)
  OBVIOUS
<1>3. \A w : IndexIn(db.keys, w) \in B \cup {NoBucket}
  BY <1>1 DEF IndexIn, NoBucket
<1>4. ASSUME NEW sel \in P, NEW i PROVE AddRoute(view, ev, sel, i) \in P
  BY <1>2, <1>3, AddsBucket DEF AddRoute
<1>5. PICK n \in Nat : DOMAIN RouteNames = 1 .. n
  <2>1. DOMAIN RouteNames = 1 .. 9
    BY DEF RouteNames
  <2>. QED BY <2>1
<1>6. RoutesStayIn(P, view, ev, n) /\ <<>> \in P
  BY <1>2, <1>4 DEF RoutesStayIn
<1>7. PICK l : l = TokenBuckets(view, ev)
  OBVIOUS
<1>8. l \in P
  <2>1. PICK h \in [0 .. n -> P] : l = h[n]
    BY <1>5, <1>6, <1>7, RoutesTrace
  <2>. QED BY <2>1
<1>9. SelectBuckets(view, ev) = AddBucket(l, db.avBucket)
  BY <1>7 DEF SelectBuckets, TokenBuckets
<1>10. db.avBucket \in B \cup {NoBucket}
  BY <1>1, BucketTables
<1>. QED BY <1>1, <1>2, <1>8, <1>9, <1>10, AddsBucket

\* The rules of the buckets selected.
LEMMA RulesOfBuckets ==
  ASSUME db \in Dbs, NEW sel \in Seq(DOMAIN db.keys)
  PROVE  /\ BucketRules(sel) \in Seq(Rules)
         /\ ToSet(BucketRules(sel)) =
              UNION {ToSet(Slice(db.bucketIdx, db.buckets[b])) : b \in ToSet(sel)}
<1>1. PICK R : R = Rules
  OBVIOUS
<1>2. PICK P : P = Seq(R)
  OBVIOUS
<1>. DEFINE rules(b) == Slice(db.bucketIdx, db.buckets[b])
<1>3. \A i \in DOMAIN sel : rules(sel[i]) \in Seq(R)
  BY <1>1, BucketTables
<1>4. PICK n \in Nat : DOMAIN sel = 1 .. n
  OBVIOUS
<1>. HIDE DEF rules
<1>5. ASSUME NEW acc \in P, NEW i \in DOMAIN sel
      PROVE  /\ AddRules(acc, sel[i]) \in P
             /\ ToSet(AddRules(acc, sel[i])) = ToSet(acc) \cup ToSet(rules(sel[i]))
  <2>1. PICK v : v = rules(sel[i])
    OBVIOUS
  <2>2. v \in Seq(R) /\ acc \in Seq(R)
    BY <1>2, <1>3, <2>1
  <2>3. acc \o v \in Seq(R) /\ ToSet(acc \o v) = ToSet(acc) \cup ToSet(v)
    BY <2>2, JoinLists
  <2>4. AddRules(acc, sel[i]) = acc \o v
    BY <2>1 DEF AddRules, rules
  <2>. QED BY <1>2, <2>1, <2>3, <2>4
<1>6. RulesStayIn(P, sel) /\ <<>> \in P
  BY <1>2, <1>5 DEF RulesStayIn
<1>7. PICK h \in [0 .. n -> P] :
        /\ h[0] = <<>>
        /\ \A i \in 1 .. n : h[i] = AddRules(h[i - 1], sel[i])
        /\ BucketRules(sel) = h[n]
  BY <1>4, <1>6, BucketsTrace
<1>. DEFINE Upto(i) == UNION {ToSet(rules(sel[j])) : j \in 1 .. i}
            Q == {i \in Nat : i <= n => ToSet(h[i]) = Upto(i)}
<1>8. 0 \in Q
  <2>1. Upto(0) = {}
    OBVIOUS
  <2>2. ToSet(<<>>) = {}
    BY DEF ToSet
  <2>. QED BY <1>7, <2>1, <2>2
<1>9. ASSUME NEW i \in Nat, i \in Q PROVE i + 1 \in Q
  <2>1. SUFFICES ASSUME i + 1 <= n PROVE ToSet(h[i + 1]) = Upto(i + 1)
    OBVIOUS
  <2>2. PICK j \in 1 .. n : j = i + 1 /\ j - 1 = i /\ i \in 0 .. n
    BY <2>1
  <2>3. h[i] \in P /\ ToSet(h[i]) = Upto(i)
    BY <1>7, <1>9, <2>2
  <2>. HIDE DEF Upto
  <2>4. ToSet(h[j]) = Upto(i) \cup ToSet(rules(sel[j]))
    BY <1>4, <1>5, <1>7, <2>2, <2>3
  <2>5. Upto(i + 1) = Upto(i) \cup ToSet(rules(sel[j]))
    <3>1. \A k : k \in 1 .. i + 1 <=> k \in 1 .. i \/ k = j
      BY <2>2
    <3>. QED BY <3>1 DEF Upto
  <2>. QED BY <2>2, <2>4, <2>5
<1>10. n \in Q
  <2>1. \A i \in Nat : i \in Q => i + 1 \in Q
    BY <1>9
  <2>. HIDE DEF Q
  <2>2. Nat \subseteq Q
    BY <1>8, <2>1, SetInduction
  <2>. QED BY <2>2
<1>11. ToSet(h[n]) = UNION {ToSet(rules(b)) : b \in ToSet(sel)}
  <2>1. \A b : b \in ToSet(sel) <=> \E j \in 1 .. n : b = sel[j]
    BY <1>4 DEF ToSet
  <2>2. ToSet(h[n]) = Upto(n)
    BY <1>10
  <2>. QED BY <2>1, <2>2
<1>12. h[n] \in P
  OBVIOUS
<1>. QED BY <1>1, <1>2, <1>7, <1>11, <1>12 DEF rules

\* eval_one_rule over a list: when no rule was verified in this evaluation yet, those
\* that end up verified are the allowed ones of the list.
LEMMA VerifyExact ==
  ASSUME NEW R, NEW order \in Seq(R), NEW allowed,
         NEW s, \A r \in R : s.evalDone[r] # s.gen
  PROVE  ToSet(Verify(s, order, allowed)) = ToSet(order) \cap allowed
<1>1. PICK P : P = Seq(R)
  OBVIOUS
<1>2. PICK n \in Nat : DOMAIN order = 1 .. n
  OBVIOUS
<1>3. ASSUME NEW acc \in P, NEW i \in DOMAIN order
      PROVE  /\ VerifyOne(s, allowed, acc, order[i]) \in P
             /\ ToSet(VerifyOne(s, allowed, acc, order[i]))
                  = ToSet(acc) \cup ({order[i]} \cap allowed)
  <2>1. PICK r \in R : r = order[i]
    OBVIOUS
  <2>2. s.evalDone[r] # s.gen
    OBVIOUS
  <2>3. CASE r \notin allowed \/ r \in ToSet(acc)
    BY <2>1, <2>3 DEF VerifyOne
  <2>4. CASE ~(r \notin allowed \/ r \in ToSet(acc))
    <3>1. VerifyOne(s, allowed, acc, order[i]) = Append(acc, r)
      BY <2>1, <2>2, <2>4 DEF VerifyOne
    <3>2. Append(acc, r) \in Seq(R) /\ ToSet(Append(acc, r)) = ToSet(acc) \cup {r}
      BY <1>1, AppendSet
    <3>. QED BY <1>1, <2>1, <2>4, <3>1, <3>2
  <2>. QED BY <2>3, <2>4
<1>4. VerifyStaysIn(P, s, order, allowed) /\ <<>> \in P
  BY <1>1, <1>3 DEF VerifyStaysIn
<1>5. PICK h \in [0 .. n -> P] :
        /\ h[0] = <<>>
        /\ \A i \in 1 .. n : h[i] = VerifyOne(s, allowed, h[i - 1], order[i])
        /\ Verify(s, order, allowed) = h[n]
  <2>1. PICK l : l = order
    OBVIOUS
  <2>2. DOMAIN l = 1 .. n /\ VerifyStaysIn(P, s, l, allowed) /\ <<>> \in P
    BY <1>2, <1>4, <2>1
  <2>3. \E h \in [0 .. n -> P] :
          /\ h[0] = <<>>
          /\ \A i \in 1 .. n : h[i] = VerifyOne(s, allowed, h[i - 1], l[i])
          /\ Verify(s, l, allowed) = h[n]
    BY <2>2, VerifyTrace
  <2>. QED BY <2>1, <2>3
<1>. DEFINE Upto(i) == {order[j] : j \in 1 .. i} \cap allowed
            Q == {i \in Nat : i <= n => ToSet(h[i]) = Upto(i)}
<1>6. 0 \in Q
  <2>1. Upto(0) = {}
    OBVIOUS
  <2>2. ToSet(<<>>) = {}
    BY DEF ToSet
  <2>. QED BY <1>5, <2>1, <2>2
<1>7. ASSUME NEW i \in Nat, i \in Q PROVE i + 1 \in Q
  <2>1. SUFFICES ASSUME i + 1 <= n PROVE ToSet(h[i + 1]) = Upto(i + 1)
    OBVIOUS
  <2>2. PICK j \in 1 .. n : j = i + 1 /\ j - 1 = i /\ i \in 0 .. n
    BY <2>1
  <2>. HIDE DEF Upto
  <2>3. h[i] \in P /\ ToSet(h[i]) = Upto(i)
    <3>1. i \in 0 .. n /\ i <= n
      BY <2>2
    <3>. QED BY <1>7, <3>1
  <2>4. ToSet(h[j]) = Upto(i) \cup ({order[j]} \cap allowed)
    BY <1>2, <1>3, <1>5, <2>2, <2>3
  <2>5. Upto(i + 1) = Upto(i) \cup ({order[j]} \cap allowed)
    <3>1. \A k : k \in 1 .. i + 1 <=> k \in 1 .. i \/ k = j
      BY <2>2
    <3>. QED BY <3>1 DEF Upto
  <2>. QED BY <2>2, <2>4, <2>5
<1>8. n \in Q
  <2>1. \A i \in Nat : i \in Q => i + 1 \in Q
    BY <1>7
  <2>. HIDE DEF Q
  <2>2. Nat \subseteq Q
    BY <1>6, <2>1, SetInduction
  <2>. QED BY <2>2
<1>9. Upto(n) = ToSet(order) \cap allowed
  <2>1. \A r : r \in ToSet(order) <=> \E j \in 1 .. n : r = order[j]
    BY <1>2 DEF ToSet
  <2>. QED BY <2>1
<1>. QED BY <1>5, <1>8, <1>9

-----------------------------------------------------------------------------
(***************************************************************************)
(* The needles of an event.                                                *)
(***************************************************************************)

LEMMA ListedOnce ==
  ASSUME NEW S, NEW l \in Seq(S), IsInjective(l)
  PROVE  Cardinality(ToSet(l)) = Len(l)
<1>1. l \in Bijection(1 .. Len(l), ToSet(l))
  BY DEF Bijection, Injection, Surjection, IsInjective, ToSet
<1>2. PICK n \in Nat : n = Len(l)
  OBVIOUS
<1>3. ExistsBijection(1 .. n, ToSet(l))
  BY <1>1, <1>2 DEF ExistsBijection
<1>4. IsFiniteSet(1 .. n) /\ Cardinality(1 .. n) = n
  BY FS_Interval
<1>5. PICK T : T = ToSet(l)
  OBVIOUS
<1>6. Cardinality(T) = n
  BY <1>3, <1>4, <1>5, FS_Bijection
<1>. QED BY <1>2, <1>5, <1>6

\* The fields that the rules of the buckets in sel name.
NamedIn(d, sel, f) ==
  AnyFieldPosted(d) \/ \E b \in ToSet(sel) : f \in FieldsOfBucket(d, b)

\* The needles that occur in field f.
InField(d, view, f) ==
  {k \in Sought(d, f) : view[f] # NoVal /\ Occurs(view[f], d.needles[k])}

\* The literals that NeedlesExact speaks of.
Literals(d, view, sel) ==
  UNION {{<<f, k>> : k \in InField(d, view, f)}
           : f \in {g \in DOMAIN d.fields : NamedIn(d, sel, g)}}

NeedlesAre(d, view, sel, l) ==
  sel # <<>> => /\ Cardinality(ToSet(l)) = Len(l)
                /\ ToSet(l) = Literals(d, view, sel)

LEMMA NeedlesExactIs ==
  /\ NeedlesExact <=> NeedlesAre(db, EventView, pre, marks)
  /\ NeedlesExact' <=> NeedlesAre(db', EventView', pre', marks')
BY DEF NeedlesExact, NeedlesAre, Literals, InField, NamedIn

\* build_bucket_fields, build_field_teddy: the scan of a field leaves out no needle
\* that a rule of the buckets could ask for there.
LEMMA ScannedAreNamed ==
  ASSUME db \in Dbs, NEW sel \in Seq(DOMAIN db.keys), sel # <<>>, NEW view,
         NEW f \in DOMAIN db.fields
  PROVE  Found(view, sel, f) =
           IF NamedIn(db, sel, f) THEN {f} \X InField(db, view, f) ELSE {}
<1>1. PICK b \in DOMAIN db.keys : b \in ToSet(sel)
  <2>1. 1 \in DOMAIN sel
    OBVIOUS
  <2>. QED BY <2>1 DEF ToSet
<1>2. \A c \in ToSet(sel) : c \in DOMAIN db.keys
  BY DEF ToSet
<1>3. PICK ids : ids = Sought(db, f)
  OBVIOUS
<1>4. CASE ids = {}
  <2>1. InField(db, view, f) = {}
    BY <1>3, <1>4 DEF InField
  <2>2. Found(view, sel, f) = {}
    BY <1>3, <1>4 DEF Found
  <2>. QED BY <2>1, <2>2
<1>5. CASE ids # {}
  <2>1. db.fieldTeddy[f] # NoTeddy
    BY <1>3, <1>5, ScannerOfField
  <2>2. db.needles # <<>>
    BY <1>3, <1>5, ScannerOfField
  <2>3. \A c \in DOMAIN db.keys :
          db.bucketFields[c] = IF AnyFieldPosted(db) \/ db.needles = <<>>
                               THEN DOMAIN db.fields ELSE FieldsOfBucket(db, c)
    BY BucketTables
  <2>4. f \in ScannedFields(sel) <=> NamedIn(db, sel, f)
    <3>1. CASE AnyFieldPosted(db)
      <4>1. db.bucketFields[b] = DOMAIN db.fields
        BY <2>3, <3>1
      <4>. QED BY <1>1, <2>1, <3>1, <4>1 DEF ScannedFields, NamedIn
    <3>2. CASE ~AnyFieldPosted(db)
      <4>1. \A c \in ToSet(sel) : db.bucketFields[c] = FieldsOfBucket(db, c)
        BY <1>2, <2>2, <2>3, <3>2
      <4>. QED BY <2>1, <3>2, <4>1 DEF ScannedFields, NamedIn
    <3>. QED BY <3>1, <3>2
  <2>5. CASE view[f] = NoVal
    BY <2>5 DEF Found, InField
  <2>6. CASE view[f] # NoVal
    <3>1. InField(db, view, f) = {k \in Sought(db, f) : Occurs(view[f], db.needles[k])}
      BY <2>6 DEF InField
    <3>. QED BY <2>4, <2>6, <3>1 DEF Found
  <2>. QED BY <2>5, <2>6
<1>. QED BY <1>4, <1>5

LEMMA ScanFindsNeedles ==
  ASSUME db \in Dbs, AllWide(db), NEW view \in Views(db),
         NEW sel \in Seq(DOMAIN db.keys),
         tscr \in Scratches(Len(db.needles)), NEW s, s = Scan(view, sel)
  PROVE  NeedlesAre(db, view, sel, s.marks)
<1>. SUFFICES ASSUME sel # <<>>
              PROVE  /\ Cardinality(ToSet(s.marks)) = Len(s.marks)
                     /\ ToSet(s.marks) = Literals(db, view, sel)
  BY DEF NeedlesAre
<1>1. /\ s \in ScanStates(db)
      /\ IsInjective(s.marks)
      /\ ToSet(s.marks) = UNION {Found(view, sel, f) : f \in DOMAIN db.fields}
  BY ScanExact
<1>2. Cardinality(ToSet(s.marks)) = Len(s.marks)
  <2>1. PICK M : M = (DOMAIN db.fields) \X (DOMAIN db.needles)
    OBVIOUS
  <2>2. PICK l : l = s.marks
    OBVIOUS
  <2>3. l \in Seq(M) /\ IsInjective(l)
    BY <1>1, <2>1, <2>2 DEF ScanStates, Marks
  <2>. QED BY <2>2, <2>3, ListedOnce
<1>3. \A f \in DOMAIN db.fields :
        Found(view, sel, f) = IF NamedIn(db, sel, f) THEN {f} \X InField(db, view, f) ELSE {}
  BY ScannedAreNamed
<1>4. \A f : {f} \X InField(db, view, f) = {<<f, k>> : k \in InField(db, view, f)}
  OBVIOUS
<1>5. Literals(db, view, sel)
        = UNION {{f} \X InField(db, view, f) : f \in {g \in DOMAIN db.fields : NamedIn(db, sel, g)}}
  BY <1>4 DEF Literals
<1>6. UNION {Found(view, sel, f) : f \in DOMAIN db.fields}
        = UNION {{f} \X InField(db, view, f) : f \in {g \in DOMAIN db.fields : NamedIn(db, sel, g)}}
  BY <1>3
<1>. QED BY <1>1, <1>2, <1>5, <1>6

\* What an evaluation looks at is its event.
LEMMA ViewOfCall ==
  ASSUME ScratchInv, db \in Dbs, db' = db, NEW ev \in Events, call'.event = ev,
         NEW view, view = View(ClearMemo(memo), ev)
  PROVE  view \in Views(db) /\ view = EventView'
<1>1. DOMAIN memo = DOMAIN db.fields
  BY NoDbAssumption DEF NoDbAssumption, ScratchInv, Sized
<1>2. view = [f \in DOMAIN db.fields |-> Value(ev, db.fields[f])]
  BY <1>1 DEF View, ClearMemo
<1>3. EventView' = [f \in DOMAIN db.fields |-> Value(ev, db.fields[f])]
  BY DEF EventView, FieldsOf
<1>4. view \in Views(db)
  BY ViewTypes DEF ScratchInv
<1>. QED BY <1>2, <1>3, <1>4

\* An evaluation that prefilters leaves the marks of its scan, on its event's values.
LEMMA RunNeedles ==
  ASSUME MatchInv, \A d \in Dbs : AllWide(d),
         NEW ev \in Events, NEW max \in MaxHitsOf, Run(ev, max)
  PROVE  NeedlesExact'
<1>1. db # NoDb /\ db' = db /\ call'.event = ev
  BY DEF Run
<1>2. db \in Dbs /\ tscr \in Scratches(Len(db.needles))
  BY <1>1 DEF MatchInv, Typed
<1>3. PICK view : view = View(ClearMemo(memo), ev)
  OBVIOUS
<1>4. view \in Views(db) /\ view = EventView'
  BY <1>1, <1>2, <1>3, ViewOfCall DEF MatchInv
<1>5. CASE \E sel \in {SelectBuckets(view, ev)} : RunPrefiltered(view, sel, max)
  <2>1. PICK sel : sel = SelectBuckets(view, ev) /\ RunPrefiltered(view, sel, max)
    BY <1>5
  <2>2. sel \in Seq(DOMAIN db.keys)
    BY <1>2, <2>1, SelectedBuckets
  <2>3. pre' = sel /\ marks' = Scan(view, sel).marks
    BY <2>1 DEF RunPrefiltered, Prefilter
  <2>4. NeedlesAre(db, view, sel, marks')
    BY <1>2, <1>4, <2>2, <2>3, ScanFindsNeedles
  <2>5. NeedlesAre(db', EventView', pre', marks')
    BY <1>1, <1>4, <2>3, <2>4
  <2>. QED BY <2>5, NeedlesExactIs
<1>6. CASE pre' = <<>>
  BY <1>6 DEF NeedlesExact
<1>. QED BY <1>3, <1>5, <1>6 DEF Run, RunBuckets, RunAllRules

\* In a database of needles of two bytes and more the scans of an event report, once
\* each, exactly the needles that occur where a rule to be evaluated asks for them,
\* over any sequence of loads, events and settings: sigma_teddy_build, scan_field,
\* build_bucket_fields and build_field_teddy together.
THEOREM NeedlesAreExact ==
  ASSUME \A d \in Dbs : AllWide(d)
  PROVE  Spec => []NeedlesExact
<1>1. Init => NeedlesExact
  BY DEF Init, NeedlesExact
<1>2. MatchInv /\ NeedlesExact /\ [Next]_vars => NeedlesExact'
  <2>. SUFFICES ASSUME MatchInv, NeedlesExact, [Next]_vars PROVE NeedlesExact'
    OBVIOUS
  <2>1. CASE pre' = <<>>
    BY <2>1 DEF NeedlesExact
  <2>2. CASE UNCHANGED <<db, pre, marks, call>>
    <3>1. EventView' = EventView
      BY <2>2 DEF EventView, FieldsOf
    <3>. QED BY <2>2, <3>1, NeedlesExactIs
  <2>3. CASE \E ev \in Events, max \in MaxHitsOf : Run(ev, max)
    BY <2>3, RunNeedles
  <2>4. pre' = <<>> \/ UNCHANGED <<db, pre, marks, call>>
        \/ \E ev \in Events, max \in MaxHitsOf : Run(ev, max)
    BY DEF Next, Load, Free, Create, NoResult, SetPrefilter, RunLinear, RunAllRules,
       vars, scratch, result
  <2>. QED BY <2>1, <2>2, <2>3, <2>4
<1>. QED BY <1>1, <1>2, MatcherIsTyped, PTL DEF Spec

-----------------------------------------------------------------------------
(***************************************************************************)
(* The candidates of an event.                                             *)
(***************************************************************************)

\* CandidatesExact over the state it speaks of.
RulesIn(d, sel) ==
  FoldLeft(LAMBDA acc, b : acc \o Slice(d.bucketIdx, d.buckets[b]), <<>>, sel)

CandidatesAre(d, view, sel, done, g) ==
  sel # <<>> => \A r \in ToSet(RulesIn(d, sel)) : done[r] = g <=> Candidate(d, view, r)

LEMMA RulesInIs ==
  /\ \A sel : BucketRules(sel) = RulesIn(db, sel)
  /\ BucketRules(pre)' = RulesIn(db', pre')
<1>1. ASSUME NEW sel PROVE BucketRules(sel) = RulesIn(db, sel)
  BY DEF BucketRules, RulesIn, FoldLeft, MapThenFoldSet
<1>2. BucketRules(pre)' = RulesIn(db', pre')
  BY DEF BucketRules, RulesIn, FoldLeft, MapThenFoldSet
<1>. QED BY <1>1, <1>2

LEMMA CandidateIs ==
  \A r : Candidate(db, EventView, r)' <=> Candidate(db', EventView', r)
BY DEF Candidate, ClausesHolding, FullMask, Witnessed, WitnessHolds, Posted

LEMMA CandidatesExactIs ==
  /\ CandidatesExact <=> CandidatesAre(db, EventView, pre, evalDone, gen)
  /\ CandidatesExact' <=> CandidatesAre(db', EventView', pre', evalDone', gen')
<1>1. CandidatesExact <=> CandidatesAre(db, EventView, pre, evalDone, gen)
  BY RulesInIs, CandidateIs DEF CandidatesExact, Gated, CandidatesAre
<1>2. CandidatesExact' <=> CandidatesAre(db', EventView', pre', evalDone', gen')
  BY RulesInIs, CandidateIs DEF CandidatesExact, Gated, CandidatesAre
<1>. QED BY <1>1, <1>2

\* mark_postings and fwit_holds credit a rule of the buckets exactly the clauses that
\* have an atom holding on the event.
LEMMA CreditsAreHolding ==
  ASSUME db \in Dbs, PostedWhereNamed(db), NEW view,
         NEW sel \in Seq(DOMAIN db.keys), sel # <<>>,
         NEW r \in ToSet(BucketRules(sel)),
         NEW found, found = Literals(db, view, sel)
  PROVE  {c[2] : c \in {d \in Credits(view, found) : d[1] = r}} = ClausesHolding(db, view, r)
<1>1. \A x : x \in found <=>
        \E f \in DOMAIN db.fields : \E k \in InField(db, view, f) :
          NamedIn(db, sel, f) /\ x = <<f, k>>
  BY DEF Literals
<1>2. \A f \in DOMAIN db.fields : \A k \in InField(db, view, f) : k \in DOMAIN db.needles
  <2>1. \A f \in DOMAIN db.fields : \A k \in Sought(db, f) : k \in DOMAIN db.needles
    BY ScannerOfField
  <2>. QED BY <2>1 DEF InField
<1>3. ASSUME NEW c, Witnessed(db, view, r, c)
      PROVE  <<r, c>> \in Credits(view, found) /\ c \in FullMask(db, r)
  <2>1. PICK w \in ToSet(db.fwit) : w.rule = r /\ w.clause = c /\ WitnessHolds(db, view, w)
    BY <1>3 DEF Witnessed
  <2>2. <<r, c>> \in Credits(view, found)
    BY <2>1 DEF Credits
  <2>. QED BY <2>1, <2>2, WitnessesInMask
<1>4. ASSUME NEW c, Posted(db, view, r, c)
      PROVE  <<r, c>> \in Credits(view, found) /\ c \in FullMask(db, r)
  <2>0. PICK k \in DOMAIN db.needles : \E p \in ToSet(Refs(db, k)) :
          /\ p.rule = r /\ p.clause = c
          /\ \E f \in DOMAIN db.fields :
               /\ p.field \in {AnyField, f}
               /\ view[f] # NoVal /\ Occurs(view[f], db.needles[k])
    BY <1>4 DEF Posted
  <2>1. PICK p \in ToSet(Refs(db, k)), f \in DOMAIN db.fields :
          /\ p.rule = r /\ p.clause = c
          /\ p.field \in {AnyField, f}
          /\ view[f] # NoVal /\ Occurs(view[f], db.needles[k])
    BY <2>0
  <2>2. p \in ToSet(db.postRefs) /\ p.clause \in FullMask(db, p.rule)
    BY PostingsInMask
  <2>3. p.field = AnyField => AnyFieldPosted(db)
    BY <2>2 DEF AnyFieldPosted, ToSet
  <2>4. k \in Sought(db, f)
    <3>1. db.postRefs # <<>>
      BY <2>2 DEF ToSet
    <3>. QED BY <2>1, <2>3, <3>1 DEF Sought, PostedTo
  <2>5. NamedIn(db, sel, f)
    <3>1. CASE AnyFieldPosted(db)
      BY <3>1 DEF NamedIn
    <3>2. CASE ~AnyFieldPosted(db)
      <4>1. f \in FieldsOfRule(db, r)
        BY <2>1, <2>3, <3>2 DEF PostedWhereNamed
      <4>2. PICK b \in ToSet(sel) : r \in ToSet(Slice(db.bucketIdx, db.buckets[b]))
        BY RulesOfBuckets
      <4>3. f \in FieldsOfBucket(db, b)
        BY <4>1, <4>2 DEF FieldsOfRule, FieldsOfBucket
      <4>. QED BY <4>3 DEF NamedIn
    <3>. QED BY <3>1, <3>2
  <2>6. <<f, k>> \in found
    BY <1>1, <2>1, <2>4, <2>5 DEF InField
  <2>7. PICK m \in found : m = <<f, k>>
    BY <2>6
  <2>8. p \in {q \in ToSet(Refs(db, m[2])) : q.field \in {AnyField, m[1]}}
    BY <2>1, <2>7
  <2>9. <<r, c>> \in Credits(view, found)
    BY <2>1, <2>8 DEF Credits
  <2>. QED BY <2>1, <2>2, <2>9
<1>5. ASSUME NEW x \in Credits(view, found), x[1] = r
      PROVE  x[2] \in FullMask(db, r) /\ (Witnessed(db, view, r, x[2]) \/ Posted(db, view, r, x[2]))
  <2>1. CASE \E w \in ToSet(db.fwit) : WitnessHolds(db, view, w) /\ x = <<w.rule, w.clause>>
    <3>1. PICK w \in ToSet(db.fwit) : WitnessHolds(db, view, w) /\ x = <<w.rule, w.clause>>
      BY <2>1
    <3>2. w.rule = r /\ w.clause = x[2]
      BY <1>5, <3>1
    <3>3. Witnessed(db, view, r, x[2])
      BY <3>1, <3>2 DEF Witnessed
    <3>. QED BY <1>3, <3>3
  <2>2. CASE \E m \in found : \E p \in ToSet(Refs(db, m[2])) :
               p.field \in {AnyField, m[1]} /\ x = <<p.rule, p.clause>>
    <3>0. PICK m \in found : \E p \in ToSet(Refs(db, m[2])) :
            p.field \in {AnyField, m[1]} /\ x = <<p.rule, p.clause>>
      BY <2>2
    <3>1. PICK p \in ToSet(Refs(db, m[2])) :
            p.field \in {AnyField, m[1]} /\ x = <<p.rule, p.clause>>
      BY <3>0
    <3>2. PICK f \in DOMAIN db.fields : \E k \in InField(db, view, f) : m = <<f, k>>
      BY <1>1
    <3>. PICK k \in InField(db, view, f) : m = <<f, k>>
      BY <3>2
    <3>3. m[1] = f /\ m[2] = k /\ k \in DOMAIN db.needles
      BY <1>2, <3>2
    <3>4. p.rule = r /\ p.clause = x[2]
      BY <1>5, <3>1
    <3>5. view[f] # NoVal /\ Occurs(view[f], db.needles[k])
      BY DEF InField
    <3>6. Posted(db, view, r, x[2])
      BY <3>1, <3>3, <3>4, <3>5 DEF Posted
    <3>. QED BY <1>4, <3>6
  <2>. QED BY <2>1, <2>2 DEF Credits
<1>6. \A c : c \in {e[2] : e \in {d \in Credits(view, found) : d[1] = r}}
               <=> \E x \in Credits(view, found) : x[1] = r /\ x[2] = c
  OBVIOUS
<1>7. \A c : c \in ClausesHolding(db, view, r) <=>
               c \in FullMask(db, r) /\ (Witnessed(db, view, r, c) \/ Posted(db, view, r, c))
  BY DEF ClausesHolding
<1>8. \A c : <<r, c>>[1] = r /\ <<r, c>>[2] = c
  OBVIOUS
<1>9. ASSUME NEW c, Witnessed(db, view, r, c) \/ Posted(db, view, r, c)
       PROVE  \E x \in Credits(view, found) : x[1] = r /\ x[2] = c
  BY <1>3, <1>4, <1>8, <1>9
<1>10. \A c : (\E x \in Credits(view, found) : x[1] = r /\ x[2] = c)
                <=> c \in FullMask(db, r) /\ (Witnessed(db, view, r, c) \/ Posted(db, view, r, c))
  BY <1>5, <1>9
<1>. QED BY <1>6, <1>7, <1>10

\* pf_touch and pf_is_candidate: with every stamp in the past, a rule is restricted to
\* when it is always verified or when this event credits each of its clauses.
LEMMA CandidatesOf ==
  ASSUME NEW view, NEW sel, NEW s, NEW r \in Rules, s.ruleGen[r] # s.gen,
         NEW p, p = Prefilter(view, sel, s), NEW held,
         held = {c[2] : c \in {d \in Credits(view, ToSet(p.marks)) : d[1] = r}}
  PROVE  r \in p.candidates <=> \/ r \in ToSet(db.litav)
                                \/ held # {} /\ held = FullMask(db, r)
<1>1. PICK credits : credits = Credits(view, ToSet(p.marks))
  OBVIOUS
<1>2. p.marks = Scan(view, sel).marks
  BY DEF Prefilter
<1>3. /\ p.candidates = {q \in p.stamped : p.mask[q] = FullMask(db, q)}
      /\ p.stamped = Stamped(s, credits)
      /\ p.mask[r] = CreditedMask(s, r, credits)
  BY <1>1, <1>2 DEF Prefilter
<1>4. held = {c[2] : c \in {d \in credits : d[1] = r}}
  BY <1>1
<1>5. r \in Stamped(s, credits) <=> r \in ToSet(db.litav) \/ held # {}
  <2>1. r \in Stamped(s, credits) <=> r \in ToSet(db.litav) \/ \E c \in credits : c[1] = r
    BY DEF Stamped
  <2>2. held # {} <=> \E c \in credits : c[1] = r
    BY <1>4
  <2>. QED BY <2>1, <2>2
<1>6. CASE r \in ToSet(db.litav)
  <2>1. CreditedMask(s, r, credits) = FullMask(db, r)
    BY <1>6 DEF CreditedMask
  <2>. QED BY <1>3, <1>5, <1>6, <2>1
<1>7. CASE r \notin ToSet(db.litav) /\ held # {}
  <2>1. CreditedMask(s, r, credits) = held
    BY <1>4, <1>7 DEF CreditedMask
  <2>. QED BY <1>3, <1>5, <1>7, <2>1
<1>8. CASE r \notin ToSet(db.litav) /\ held = {}
  BY <1>3, <1>5, <1>8
<1>. QED BY <1>6, <1>7, <1>8

\* What a prefiltered evaluation verifies of the rules of its buckets.
LEMMA PrefilteredCandidates ==
  ASSUME ScratchInv, db \in Dbs, AllWide(db), PostedWhereNamed(db),
         tscr \in Scratches(Len(db.needles)),
         NEW view \in Views(db), NEW sel \in Seq(DOMAIN db.keys), sel # <<>>, NEW max,
         RunPrefiltered(view, sel, max)
  PROVE  CandidatesAre(db, view, sel, evalDone', gen')
<1>1. PICK s, p, read :
        /\ s = BumpGen(Stamps) /\ p = Prefilter(view, sel, s)
        /\ Finish(view, s, BucketRules(sel), p.candidates, max, read)
  BY DEF RunPrefiltered
<1>2. /\ \A r \in Rules : s.ruleGen[r] # s.gen
      /\ \A r \in Rules : s.evalDone[r] # s.gen
  <2>1. db # NoDb
    BY NoDbAssumption DEF NoDbAssumption
  <2>2. /\ s.gen \in 1 .. GenMax
        /\ \A r \in Rules : s.ruleGen[r] \in 0 .. s.gen - 1
        /\ \A r \in Rules : s.evalDone[r] \in 0 .. s.gen - 1
    BY <1>1, <2>1, BumpAdvances
  <2>3. \A i \in 0 .. s.gen - 1 : i # s.gen
    BY <2>2, TeddyAssumption DEF TeddyAssumption
  <2>. QED BY <2>2, <2>3
<1>3. PICK order : order = BucketRules(sel)
  OBVIOUS
<1>4. PICK R : R = Rules
  OBVIOUS
<1>5. order \in Seq(R)
  BY <1>3, <1>4, RulesOfBuckets
<1>6. PICK allowed : allowed = p.candidates
  OBVIOUS
<1>7. ToSet(Verify(s, order, allowed)) = ToSet(order) \cap allowed
  BY <1>2, <1>4, <1>5, VerifyExact
<1>8. /\ gen' = s.gen
      /\ \A r \in Rules : evalDone'[r] = IF r \in ToSet(order) \cap allowed THEN s.gen
                                         ELSE s.evalDone[r]
  <2>1. Finish(view, s, order, allowed, max, read)
    BY <1>1, <1>3, <1>6
  <2>2. PICK v : /\ v = Verdicts(view, s, order, allowed)
                 /\ gen' = s.gen
                 /\ evalDone' = [r \in Rules |-> IF r \in v.verified THEN s.gen
                                                 ELSE s.evalDone[r]]
    BY <2>1 DEF Finish
  <2>3. v.verified = ToSet(order) \cap allowed
    BY <1>7, <2>2 DEF Verdicts
  <2>. QED BY <2>2, <2>3
<1>9. NeedlesAre(db, view, sel, p.marks)
  <2>1. p.marks = Scan(view, sel).marks
    BY <1>1 DEF Prefilter
  <2>. QED BY <2>1, ScanFindsNeedles
<1>10. PICK found : found = ToSet(p.marks)
  OBVIOUS
<1>11. found = Literals(db, view, sel)
  BY <1>9, <1>10 DEF NeedlesAre
<1>12. \A r \in ToSet(order) : r \in Rules
  BY <1>4, <1>5 DEF ToSet
<1>13. ASSUME NEW r \in ToSet(order)
       PROVE  evalDone'[r] = gen' <=> Candidate(db, view, r)
  <2>1. r \in Rules
    BY <1>12
  <2>2. evalDone'[r] = gen' <=> r \in p.candidates
    BY <1>2, <1>6, <1>8, <2>1
  <2>3. PICK held : held = {c[2] : c \in {d \in Credits(view, found) : d[1] = r}}
    OBVIOUS
  <2>4. held = ClausesHolding(db, view, r)
    BY <1>3, <1>11, <2>3, CreditsAreHolding
  <2>5. r \in p.candidates <=> \/ r \in ToSet(db.litav)
                               \/ held # {} /\ held = FullMask(db, r)
    BY <1>1, <1>2, <1>10, <2>1, <2>3, CandidatesOf
  <2>. QED BY <2>2, <2>4, <2>5 DEF Candidate
<1>14. RulesIn(db, sel) = order
  BY <1>3, RulesInIs
<1>. QED BY <1>13, <1>14 DEF CandidatesAre

LEMMA RunCandidates ==
  ASSUME MatchInv, \A d \in Dbs : AllWide(d) /\ PostedWhereNamed(d),
         NEW ev \in Events, NEW max \in MaxHitsOf, Run(ev, max)
  PROVE  CandidatesExact'
<1>1. db # NoDb /\ db' = db /\ call'.event = ev
  BY DEF Run
<1>2. db \in Dbs /\ tscr \in Scratches(Len(db.needles)) /\ ScratchInv
  BY <1>1 DEF MatchInv, Typed
<1>3. PICK view : view = View(ClearMemo(memo), ev)
  OBVIOUS
<1>4. view \in Views(db) /\ view = EventView'
  BY <1>1, <1>2, <1>3, ViewOfCall
<1>5. CASE \E sel \in {SelectBuckets(view, ev)} : RunPrefiltered(view, sel, max)
  <2>1. PICK sel : sel = SelectBuckets(view, ev) /\ RunPrefiltered(view, sel, max)
    BY <1>5
  <2>2. sel \in Seq(DOMAIN db.keys)
    BY <1>2, <2>1, SelectedBuckets
  <2>3. pre' = sel
    BY <2>1 DEF RunPrefiltered
  <2>4. CASE sel = <<>>
    BY <2>3, <2>4, CandidatesExactIs DEF CandidatesAre
  <2>5. CASE sel # <<>>
    <3>1. CandidatesAre(db, view, sel, evalDone', gen')
      BY <1>2, <1>4, <2>1, <2>2, <2>5, PrefilteredCandidates
    <3>2. CandidatesAre(db', EventView', pre', evalDone', gen')
      BY <1>1, <1>4, <2>3, <3>1
    <3>. QED BY <3>2, CandidatesExactIs
  <2>. QED BY <2>4, <2>5
<1>6. CASE pre' = <<>>
  BY <1>6, CandidatesExactIs DEF CandidatesAre
<1>. QED BY <1>3, <1>5, <1>6 DEF Run, RunBuckets, RunAllRules

\* In a database of needles of two bytes and more, posted where their rules name a
\* field, the rules that a prefiltered evaluation verifies are exactly those with no
\* clause that this event leaves without a holding atom.  Neither an older event's
\* masks and stamps nor the wrap of the counters adds or drops one, over any sequence
\* of loads, events and settings: prefilter_candidates, pf_touch, pf_is_candidate and
\* eval_one_rule together.
THEOREM CandidatesAreExact ==
  ASSUME \A d \in Dbs : AllWide(d) /\ PostedWhereNamed(d)
  PROVE  Spec => []CandidatesExact
<1>1. Init => CandidatesExact
  BY DEF Init, CandidatesExact, Gated
<1>2. MatchInv /\ CandidatesExact /\ [Next]_vars => CandidatesExact'
  <2>. SUFFICES ASSUME MatchInv, CandidatesExact, [Next]_vars PROVE CandidatesExact'
    OBVIOUS
  <2>1. CASE pre' = <<>>
    BY <2>1, CandidatesExactIs DEF CandidatesAre
  <2>2. CASE UNCHANGED <<db, pre, evalDone, gen, call>>
    <3>1. EventView' = EventView
      BY <2>2 DEF EventView, FieldsOf
    <3>. QED BY <2>2, <3>1, CandidatesExactIs
  <2>3. CASE \E ev \in Events, max \in MaxHitsOf : Run(ev, max)
    BY <2>3, RunCandidates
  <2>4. pre' = <<>> \/ UNCHANGED <<db, pre, evalDone, gen, call>>
        \/ \E ev \in Events, max \in MaxHitsOf : Run(ev, max)
    BY DEF Next, Load, Free, Create, NoResult, SetPrefilter, RunLinear, RunAllRules,
       vars, scratch, result
  <2>. QED BY <2>1, <2>2, <2>3, <2>4
<1>. QED BY <1>1, <1>2, MatcherIsTyped, PTL DEF Spec

-----------------------------------------------------------------------------
(***************************************************************************)
(* The evaluation of a rule, step by step: what each fold of it gives from *)
(* one element to the next.  No prover here can instantiate a lemma on a   *)
(* fold's operator, so each has its trace.                                 *)
(***************************************************************************)

SelStart == [ok |-> FALSE, group |-> 0, failed |-> FALSE, reads |-> {}]

\* sel_match, predicate by predicate.
SelStaysIn(P, n, d, view, s) ==
  \A x \in P, i \in 1 .. n : SelStep(d, view, x, s.start + i - 1) \in P

SelRuns(P, n, d, view, s) ==
  \E h \in [0 .. n -> P] :
    /\ h[0] = SelStart
    /\ \A i \in 1 .. n : h[i] = SelStep(d, view, h[i - 1], s.start + i - 1)
    /\ SelMatch(d, view, s) = h[n]

LEMMA SelTrace ==
  ASSUME NEW P, NEW n \in Nat, NEW d, NEW view, NEW s, SelStart \in P,
         s.count = n,
         SelStaysIn(P, n, d, view, s)
  PROVE  SelRuns(P, n, d, view, s)
<1> DEFINE all == [k \in 1 .. s.count |-> s.start + k - 1]
           Eq(f) == f = [S \in SUBSET (DOMAIN all) |->
                           IF S = {} THEN SelStart
                           ELSE SelStep(d, view, f[S \ {Max(S)}], all[Max(S)])]
           it == CHOOSE f : Eq(f)
           g == [x \in P \X (1 .. n) |-> SelStep(d, view, x[1], all[x[2]])]
<1>1. n \in Nat /\ DOMAIN all = 1 .. n /\ SelStart \in P
  OBVIOUS
<1>2. SelMatch(d, view, s) = it[DOMAIN all]
  BY DEF SelMatch, SelStart, FoldLeft, MapThenFoldSet
<1>3. \A i \in 1 .. n : all[i] = s.start + i - 1
  OBVIOUS
<1>4. g \in [P \X (1 .. n) -> P]
  <2> HIDE DEF all
  <2>1. \A x \in P, i \in 1 .. n : SelStep(d, view, x, all[i]) \in P
    BY <1>3 DEF SelStaysIn
  <2> QED
    BY <2>1
<1>5. PICK f : Solves(f, P, SelStart, g, n)
  <2> HIDE DEF g, all
  <2> QED
    BY <1>1, <1>4, FoldExists
<1>6. \A S \in SUBSET (1 .. n) : S # {} => Max(S) \in 1 .. n
  <2>1. \A S \in SUBSET (1 .. n) : S \in SUBSET (0 .. n)
    BY <1>1
  <2>2. QED
    BY <1>1, <2>1, Greatest
<1>7. \A x \in P, i \in 1 .. n : g[<<x, i>>] = SelStep(d, view, x, all[i])
  OBVIOUS
<1>8. Eq(f)
  <2> HIDE DEF g, all
  <2>1. ASSUME NEW S \in SUBSET (1 .. n), S # {}
        PROVE  f[S] = SelStep(d, view, f[S \ {Max(S)}], all[Max(S)])
    <3>1. f[S \ {Max(S)}] \in P /\ f[S] = g[<<f[S \ {Max(S)}], Max(S)>>]
      BY <1>5, <2>1 DEF Solves
    <3>2. QED
      BY <1>6, <1>7, <2>1, <3>1
  <2>2. f[{}] = SelStart /\ f = [S \in SUBSET (1 .. n) |-> f[S]]
    BY <1>5 DEF Solves
  <2>3. QED
    BY <1>1, <2>1, <2>2
<1>9. Eq(it)
  <2> HIDE DEF Eq
  <2> QED
    BY <1>8
<1>10. it[{}] = SelStart
  BY <1>9
<1>11. ASSUME NEW S \in SUBSET (1 .. n), S # {}, it[S \ {Max(S)}] \in P
       PROVE  it[S] = g[<<it[S \ {Max(S)}], Max(S)>>]
  <2> HIDE DEF it, g, all
  <2>1. it[S] = SelStep(d, view, it[S \ {Max(S)}], all[Max(S)])
    BY <1>1, <1>9, <1>11
  <2>2. QED
    BY <1>6, <1>7, <1>11, <2>1
<1>12. StepsThrough(it, P, SelStart, g, n)
  <2> HIDE DEF it, g, all
  <2>1. Obeys(it, P, SelStart, g, n)
    BY <1>10, <1>11 DEF Obeys
  <2>2. QED
    BY <1>1, <1>4, <2>1, FoldTrace
<1> DEFINE h == [k \in 0 .. n |-> it[1 .. k]]
<1> HIDE DEF it, g, all
<1>13. ASSUME NEW i \in 1 .. n
       PROVE  h[i] = SelStep(d, view, h[i - 1], s.start + i - 1)
  <2>1. i \in 1 .. n /\ i \in 0 .. n /\ i - 1 \in 0 .. n
    BY <1>1
  <2>2. it[1 .. i] = g[<<it[1 .. i - 1], i>>] /\ it[1 .. i - 1] \in P
    BY <1>12, <2>1 DEF StepsThrough
  <2>3. it[1 .. i] = SelStep(d, view, it[1 .. i - 1], s.start + i - 1)
    BY <1>3, <1>7, <2>1, <2>2
  <2>4. QED
    BY <2>1, <2>3
<1>14. h \in [0 .. n -> P] /\ h[0] = SelStart /\ h[n] = it[1 .. n]
  BY <1>1, <1>12 DEF StepsThrough
<1>15. QED
  <2> HIDE DEF h
  <2> QED
    BY <1>1, <1>2, <1>13, <1>14 DEF SelRuns

AndStart(r) == [ok |-> r.sels.count > 0, reads |-> {}]

AndStep(d, view, acc, s) ==
  IF acc.ok THEN After(acc.reads, SelMatch(d, view, s)) ELSE acc

\* A rule without a condition, selection by selection.
AndStaysIn(P, n, d, view, r) ==
  \A x \in P, i \in 1 .. n : AndStep(d, view, x, Slice(d.sels, r.sels)[i]) \in P

AndRuns(P, n, d, view, r) ==
  \E h \in [0 .. n -> P] :
    /\ h[0] = AndStart(r)
    /\ \A i \in 1 .. n : h[i] = AndStep(d, view, h[i - 1], Slice(d.sels, r.sels)[i])
    /\ RunAll(d, view, r) = h[n]

LEMMA AndTrace ==
  ASSUME NEW P, NEW n \in Nat, NEW d, NEW view, NEW r, AndStart(r) \in P,
         DOMAIN Slice(d.sels, r.sels) = 1 .. n,
         AndStaysIn(P, n, d, view, r)
  PROVE  AndRuns(P, n, d, view, r)
<1> DEFINE all == Slice(d.sels, r.sels)
           Eq(f) == f = [S \in SUBSET (DOMAIN all) |->
                           IF S = {} THEN AndStart(r)
                           ELSE AndStep(d, view, f[S \ {Max(S)}], all[Max(S)])]
           it == CHOOSE f : Eq(f)
           g == [x \in P \X (1 .. n) |-> AndStep(d, view, x[1], all[x[2]])]
<1>1. n \in Nat /\ DOMAIN all = 1 .. n /\ AndStart(r) \in P
  OBVIOUS
<1>2. RunAll(d, view, r) = it[DOMAIN all]
  BY DEF RunAll, AndStart, AndStep, FoldLeft, MapThenFoldSet
<1>3. \A i \in 1 .. n : all[i] = Slice(d.sels, r.sels)[i]
  OBVIOUS
<1>4. g \in [P \X (1 .. n) -> P]
  <2> HIDE DEF all
  <2>1. \A x \in P, i \in 1 .. n : AndStep(d, view, x, all[i]) \in P
    BY <1>3 DEF AndStaysIn
  <2> QED
    BY <2>1
<1>5. PICK f : Solves(f, P, AndStart(r), g, n)
  <2> HIDE DEF g, all
  <2> QED
    BY <1>1, <1>4, FoldExists
<1>6. \A S \in SUBSET (1 .. n) : S # {} => Max(S) \in 1 .. n
  <2>1. \A S \in SUBSET (1 .. n) : S \in SUBSET (0 .. n)
    BY <1>1
  <2>2. QED
    BY <1>1, <2>1, Greatest
<1>7. \A x \in P, i \in 1 .. n : g[<<x, i>>] = AndStep(d, view, x, all[i])
  OBVIOUS
<1>8. Eq(f)
  <2> HIDE DEF g, all
  <2>1. ASSUME NEW S \in SUBSET (1 .. n), S # {}
        PROVE  f[S] = AndStep(d, view, f[S \ {Max(S)}], all[Max(S)])
    <3>1. f[S \ {Max(S)}] \in P /\ f[S] = g[<<f[S \ {Max(S)}], Max(S)>>]
      BY <1>5, <2>1 DEF Solves
    <3>2. QED
      BY <1>6, <1>7, <2>1, <3>1
  <2>2. f[{}] = AndStart(r) /\ f = [S \in SUBSET (1 .. n) |-> f[S]]
    BY <1>5 DEF Solves
  <2>3. QED
    BY <1>1, <2>1, <2>2
<1>9. Eq(it)
  <2> HIDE DEF Eq
  <2> QED
    BY <1>8
<1>10. it[{}] = AndStart(r)
  BY <1>9
<1>11. ASSUME NEW S \in SUBSET (1 .. n), S # {}, it[S \ {Max(S)}] \in P
       PROVE  it[S] = g[<<it[S \ {Max(S)}], Max(S)>>]
  <2> HIDE DEF it, g, all
  <2>1. it[S] = AndStep(d, view, it[S \ {Max(S)}], all[Max(S)])
    BY <1>1, <1>9, <1>11
  <2>2. QED
    BY <1>6, <1>7, <1>11, <2>1
<1>12. StepsThrough(it, P, AndStart(r), g, n)
  <2> HIDE DEF it, g, all
  <2>1. Obeys(it, P, AndStart(r), g, n)
    BY <1>10, <1>11 DEF Obeys
  <2>2. QED
    BY <1>1, <1>4, <2>1, FoldTrace
<1> DEFINE h == [k \in 0 .. n |-> it[1 .. k]]
<1> HIDE DEF it, g, all
<1>13. ASSUME NEW i \in 1 .. n
       PROVE  h[i] = AndStep(d, view, h[i - 1], Slice(d.sels, r.sels)[i])
  <2>1. i \in 1 .. n /\ i \in 0 .. n /\ i - 1 \in 0 .. n
    BY <1>1
  <2>2. it[1 .. i] = g[<<it[1 .. i - 1], i>>] /\ it[1 .. i - 1] \in P
    BY <1>12, <2>1 DEF StepsThrough
  <2>3. it[1 .. i] = AndStep(d, view, it[1 .. i - 1], Slice(d.sels, r.sels)[i])
    BY <1>3, <1>7, <2>1, <2>2
  <2>4. QED
    BY <2>1, <2>3
<1>14. h \in [0 .. n -> P] /\ h[0] = AndStart(r) /\ h[n] = it[1 .. n]
  BY <1>1, <1>12 DEF StepsThrough
<1>15. QED
  <2> HIDE DEF h
  <2> QED
    BY <1>1, <1>2, <1>13, <1>14 DEF AndRuns

RpnStart == [stack |-> <<>>, reads |-> {}, bad |-> FALSE]

RpnRun(d, view, r) ==
  FoldLeft(LAMBDA acc, tok : RpnStep(d, view, r, acc, tok), RpnStart, Slice(d.cond, r.cond))

\* A condition, token by token: on the stack of cells,
RpnStaysIn(P, n, d, view, r) ==
  \A x \in P, i \in 1 .. n : RpnStep(d, view, r, x, Slice(d.cond, r.cond)[i]) \in P

RpnRuns(P, n, d, view, r) ==
  \E h \in [0 .. n -> P] :
    /\ h[0] = RpnStart
    /\ \A i \in 1 .. n : h[i] = RpnStep(d, view, r, h[i - 1], Slice(d.cond, r.cond)[i])
    /\ RpnRun(d, view, r) = h[n]

LEMMA RpnTrace ==
  ASSUME NEW P, NEW n \in Nat, NEW d, NEW view, NEW r, RpnStart \in P,
         DOMAIN Slice(d.cond, r.cond) = 1 .. n,
         RpnStaysIn(P, n, d, view, r)
  PROVE  RpnRuns(P, n, d, view, r)
<1> DEFINE all == Slice(d.cond, r.cond)
           Eq(f) == f = [S \in SUBSET (DOMAIN all) |->
                           IF S = {} THEN RpnStart
                           ELSE RpnStep(d, view, r, f[S \ {Max(S)}], all[Max(S)])]
           it == CHOOSE f : Eq(f)
           g == [x \in P \X (1 .. n) |-> RpnStep(d, view, r, x[1], all[x[2]])]
<1>1. n \in Nat /\ DOMAIN all = 1 .. n /\ RpnStart \in P
  OBVIOUS
<1>2. RpnRun(d, view, r) = it[DOMAIN all]
  BY DEF RpnRun, RpnStart, FoldLeft, MapThenFoldSet
<1>3. \A i \in 1 .. n : all[i] = Slice(d.cond, r.cond)[i]
  OBVIOUS
<1>4. g \in [P \X (1 .. n) -> P]
  <2> HIDE DEF all
  <2>1. \A x \in P, i \in 1 .. n : RpnStep(d, view, r, x, all[i]) \in P
    BY <1>3 DEF RpnStaysIn
  <2> QED
    BY <2>1
<1>5. PICK f : Solves(f, P, RpnStart, g, n)
  <2> HIDE DEF g, all
  <2> QED
    BY <1>1, <1>4, FoldExists
<1>6. \A S \in SUBSET (1 .. n) : S # {} => Max(S) \in 1 .. n
  <2>1. \A S \in SUBSET (1 .. n) : S \in SUBSET (0 .. n)
    BY <1>1
  <2>2. QED
    BY <1>1, <2>1, Greatest
<1>7. \A x \in P, i \in 1 .. n : g[<<x, i>>] = RpnStep(d, view, r, x, all[i])
  OBVIOUS
<1>8. Eq(f)
  <2> HIDE DEF g, all
  <2>1. ASSUME NEW S \in SUBSET (1 .. n), S # {}
        PROVE  f[S] = RpnStep(d, view, r, f[S \ {Max(S)}], all[Max(S)])
    <3>1. f[S \ {Max(S)}] \in P /\ f[S] = g[<<f[S \ {Max(S)}], Max(S)>>]
      BY <1>5, <2>1 DEF Solves
    <3>2. QED
      BY <1>6, <1>7, <2>1, <3>1
  <2>2. f[{}] = RpnStart /\ f = [S \in SUBSET (1 .. n) |-> f[S]]
    BY <1>5 DEF Solves
  <2>3. QED
    BY <1>1, <2>1, <2>2
<1>9. Eq(it)
  <2> HIDE DEF Eq
  <2> QED
    BY <1>8
<1>10. it[{}] = RpnStart
  BY <1>9
<1>11. ASSUME NEW S \in SUBSET (1 .. n), S # {}, it[S \ {Max(S)}] \in P
       PROVE  it[S] = g[<<it[S \ {Max(S)}], Max(S)>>]
  <2> HIDE DEF it, g, all
  <2>1. it[S] = RpnStep(d, view, r, it[S \ {Max(S)}], all[Max(S)])
    BY <1>1, <1>9, <1>11
  <2>2. QED
    BY <1>6, <1>7, <1>11, <2>1
<1>12. StepsThrough(it, P, RpnStart, g, n)
  <2> HIDE DEF it, g, all
  <2>1. Obeys(it, P, RpnStart, g, n)
    BY <1>10, <1>11 DEF Obeys
  <2>2. QED
    BY <1>1, <1>4, <2>1, FoldTrace
<1> DEFINE h == [k \in 0 .. n |-> it[1 .. k]]
<1> HIDE DEF it, g, all
<1>13. ASSUME NEW i \in 1 .. n
       PROVE  h[i] = RpnStep(d, view, r, h[i - 1], Slice(d.cond, r.cond)[i])
  <2>1. i \in 1 .. n /\ i \in 0 .. n /\ i - 1 \in 0 .. n
    BY <1>1
  <2>2. it[1 .. i] = g[<<it[1 .. i - 1], i>>] /\ it[1 .. i - 1] \in P
    BY <1>12, <2>1 DEF StepsThrough
  <2>3. it[1 .. i] = RpnStep(d, view, r, it[1 .. i - 1], Slice(d.cond, r.cond)[i])
    BY <1>3, <1>7, <2>1, <2>2
  <2>4. QED
    BY <2>1, <2>3
<1>14. h \in [0 .. n -> P] /\ h[0] = RpnStart /\ h[n] = it[1 .. n]
  BY <1>1, <1>12 DEF StepsThrough
<1>15. QED
  <2> HIDE DEF h
  <2> QED
    BY <1>1, <1>2, <1>13, <1>14 DEF RpnRuns

DepthOf(toks, nsels) ==
  FoldLeft(LAMBDA depth, t : DepthAfter(toks, nsels, depth, t), 0, toks)

\* the depth of the stack,
DepthStaysIn(P, n, toks, nsels) ==
  \A x \in P, i \in 1 .. n : DepthAfter(toks, nsels, x, toks[i]) \in P

DepthRuns(P, n, toks, nsels) ==
  \E h \in [0 .. n -> P] :
    /\ h[0] = 0
    /\ \A i \in 1 .. n : h[i] = DepthAfter(toks, nsels, h[i - 1], toks[i])
    /\ DepthOf(toks, nsels) = h[n]

LEMMA DepthTrace ==
  ASSUME NEW P, NEW n \in Nat, NEW toks, NEW nsels, 0 \in P,
         DOMAIN toks = 1 .. n,
         DepthStaysIn(P, n, toks, nsels)
  PROVE  DepthRuns(P, n, toks, nsels)
<1> DEFINE all == toks
           Eq(f) == f = [S \in SUBSET (DOMAIN all) |->
                           IF S = {} THEN 0
                           ELSE DepthAfter(toks, nsels, f[S \ {Max(S)}], all[Max(S)])]
           it == CHOOSE f : Eq(f)
           g == [x \in P \X (1 .. n) |-> DepthAfter(toks, nsels, x[1], all[x[2]])]
<1>1. n \in Nat /\ DOMAIN all = 1 .. n /\ 0 \in P
  OBVIOUS
<1>2. DepthOf(toks, nsels) = it[DOMAIN all]
  BY DEF DepthOf, FoldLeft, MapThenFoldSet
<1>3. \A i \in 1 .. n : all[i] = toks[i]
  OBVIOUS
<1>4. g \in [P \X (1 .. n) -> P]
  <2> HIDE DEF all
  <2>1. \A x \in P, i \in 1 .. n : DepthAfter(toks, nsels, x, all[i]) \in P
    BY <1>3 DEF DepthStaysIn
  <2> QED
    BY <2>1
<1>5. PICK f : Solves(f, P, 0, g, n)
  <2> HIDE DEF g, all
  <2> QED
    BY <1>1, <1>4, FoldExists
<1>6. \A S \in SUBSET (1 .. n) : S # {} => Max(S) \in 1 .. n
  <2>1. \A S \in SUBSET (1 .. n) : S \in SUBSET (0 .. n)
    BY <1>1
  <2>2. QED
    BY <1>1, <2>1, Greatest
<1>7. \A x \in P, i \in 1 .. n : g[<<x, i>>] = DepthAfter(toks, nsels, x, all[i])
  OBVIOUS
<1>8. Eq(f)
  <2> HIDE DEF g, all
  <2>1. ASSUME NEW S \in SUBSET (1 .. n), S # {}
        PROVE  f[S] = DepthAfter(toks, nsels, f[S \ {Max(S)}], all[Max(S)])
    <3>1. f[S \ {Max(S)}] \in P /\ f[S] = g[<<f[S \ {Max(S)}], Max(S)>>]
      BY <1>5, <2>1 DEF Solves
    <3>2. QED
      BY <1>6, <1>7, <2>1, <3>1
  <2>2. f[{}] = 0 /\ f = [S \in SUBSET (1 .. n) |-> f[S]]
    BY <1>5 DEF Solves
  <2>3. QED
    BY <1>1, <2>1, <2>2
<1>9. Eq(it)
  <2> HIDE DEF Eq
  <2> QED
    BY <1>8
<1>10. it[{}] = 0
  BY <1>9
<1>11. ASSUME NEW S \in SUBSET (1 .. n), S # {}, it[S \ {Max(S)}] \in P
       PROVE  it[S] = g[<<it[S \ {Max(S)}], Max(S)>>]
  <2> HIDE DEF it, g, all
  <2>1. it[S] = DepthAfter(toks, nsels, it[S \ {Max(S)}], all[Max(S)])
    BY <1>1, <1>9, <1>11
  <2>2. QED
    BY <1>6, <1>7, <1>11, <2>1
<1>12. StepsThrough(it, P, 0, g, n)
  <2> HIDE DEF it, g, all
  <2>1. Obeys(it, P, 0, g, n)
    BY <1>10, <1>11 DEF Obeys
  <2>2. QED
    BY <1>1, <1>4, <2>1, FoldTrace
<1> DEFINE h == [k \in 0 .. n |-> it[1 .. k]]
<1> HIDE DEF it, g, all
<1>13. ASSUME NEW i \in 1 .. n
       PROVE  h[i] = DepthAfter(toks, nsels, h[i - 1], toks[i])
  <2>1. i \in 1 .. n /\ i \in 0 .. n /\ i - 1 \in 0 .. n
    BY <1>1
  <2>2. it[1 .. i] = g[<<it[1 .. i - 1], i>>] /\ it[1 .. i - 1] \in P
    BY <1>12, <2>1 DEF StepsThrough
  <2>3. it[1 .. i] = DepthAfter(toks, nsels, it[1 .. i - 1], toks[i])
    BY <1>3, <1>7, <2>1, <2>2
  <2>4. QED
    BY <2>1, <2>3
<1>14. h \in [0 .. n -> P] /\ h[0] = 0 /\ h[n] = it[1 .. n]
  BY <1>1, <1>12 DEF StepsThrough
<1>15. QED
  <2> HIDE DEF h
  <2> QED
    BY <1>1, <1>2, <1>13, <1>14 DEF DepthRuns

TruthOf(toks, truth) ==
  FoldLeft(LAMBDA stack, t : Evaluated(truth, stack, t), <<>>, toks)

\* and on the stack of booleans.
TruthStaysIn(P, n, toks, truth) ==
  \A x \in P, i \in 1 .. n : Evaluated(truth, x, toks[i]) \in P

TruthRuns(P, n, toks, truth) ==
  \E h \in [0 .. n -> P] :
    /\ h[0] = <<>>
    /\ \A i \in 1 .. n : h[i] = Evaluated(truth, h[i - 1], toks[i])
    /\ TruthOf(toks, truth) = h[n]

LEMMA TruthTrace ==
  ASSUME NEW P, NEW n \in Nat, NEW toks, NEW truth, <<>> \in P,
         DOMAIN toks = 1 .. n,
         TruthStaysIn(P, n, toks, truth)
  PROVE  TruthRuns(P, n, toks, truth)
<1> DEFINE all == toks
           Eq(f) == f = [S \in SUBSET (DOMAIN all) |->
                           IF S = {} THEN <<>>
                           ELSE Evaluated(truth, f[S \ {Max(S)}], all[Max(S)])]
           it == CHOOSE f : Eq(f)
           g == [x \in P \X (1 .. n) |-> Evaluated(truth, x[1], all[x[2]])]
<1>1. n \in Nat /\ DOMAIN all = 1 .. n /\ <<>> \in P
  OBVIOUS
<1>2. TruthOf(toks, truth) = it[DOMAIN all]
  BY DEF TruthOf, FoldLeft, MapThenFoldSet
<1>3. \A i \in 1 .. n : all[i] = toks[i]
  OBVIOUS
<1>4. g \in [P \X (1 .. n) -> P]
  <2> HIDE DEF all
  <2>1. \A x \in P, i \in 1 .. n : Evaluated(truth, x, all[i]) \in P
    BY <1>3 DEF TruthStaysIn
  <2> QED
    BY <2>1
<1>5. PICK f : Solves(f, P, <<>>, g, n)
  <2> HIDE DEF g, all
  <2> QED
    BY <1>1, <1>4, FoldExists
<1>6. \A S \in SUBSET (1 .. n) : S # {} => Max(S) \in 1 .. n
  <2>1. \A S \in SUBSET (1 .. n) : S \in SUBSET (0 .. n)
    BY <1>1
  <2>2. QED
    BY <1>1, <2>1, Greatest
<1>7. \A x \in P, i \in 1 .. n : g[<<x, i>>] = Evaluated(truth, x, all[i])
  OBVIOUS
<1>8. Eq(f)
  <2> HIDE DEF g, all
  <2>1. ASSUME NEW S \in SUBSET (1 .. n), S # {}
        PROVE  f[S] = Evaluated(truth, f[S \ {Max(S)}], all[Max(S)])
    <3>1. f[S \ {Max(S)}] \in P /\ f[S] = g[<<f[S \ {Max(S)}], Max(S)>>]
      BY <1>5, <2>1 DEF Solves
    <3>2. QED
      BY <1>6, <1>7, <2>1, <3>1
  <2>2. f[{}] = <<>> /\ f = [S \in SUBSET (1 .. n) |-> f[S]]
    BY <1>5 DEF Solves
  <2>3. QED
    BY <1>1, <2>1, <2>2
<1>9. Eq(it)
  <2> HIDE DEF Eq
  <2> QED
    BY <1>8
<1>10. it[{}] = <<>>
  BY <1>9
<1>11. ASSUME NEW S \in SUBSET (1 .. n), S # {}, it[S \ {Max(S)}] \in P
       PROVE  it[S] = g[<<it[S \ {Max(S)}], Max(S)>>]
  <2> HIDE DEF it, g, all
  <2>1. it[S] = Evaluated(truth, it[S \ {Max(S)}], all[Max(S)])
    BY <1>1, <1>9, <1>11
  <2>2. QED
    BY <1>6, <1>7, <1>11, <2>1
<1>12. StepsThrough(it, P, <<>>, g, n)
  <2> HIDE DEF it, g, all
  <2>1. Obeys(it, P, <<>>, g, n)
    BY <1>10, <1>11 DEF Obeys
  <2>2. QED
    BY <1>1, <1>4, <2>1, FoldTrace
<1> DEFINE h == [k \in 0 .. n |-> it[1 .. k]]
<1> HIDE DEF it, g, all
<1>13. ASSUME NEW i \in 1 .. n
       PROVE  h[i] = Evaluated(truth, h[i - 1], toks[i])
  <2>1. i \in 1 .. n /\ i \in 0 .. n /\ i - 1 \in 0 .. n
    BY <1>1
  <2>2. it[1 .. i] = g[<<it[1 .. i - 1], i>>] /\ it[1 .. i - 1] \in P
    BY <1>12, <2>1 DEF StepsThrough
  <2>3. it[1 .. i] = Evaluated(truth, it[1 .. i - 1], toks[i])
    BY <1>3, <1>7, <2>1, <2>2
  <2>4. QED
    BY <2>1, <2>3
<1>14. h \in [0 .. n -> P] /\ h[0] = <<>> /\ h[n] = it[1 .. n]
  BY <1>1, <1>12 DEF StepsThrough
<1>15. QED
  <2> HIDE DEF h
  <2> QED
    BY <1>1, <1>2, <1>13, <1>14 DEF TruthRuns

-----------------------------------------------------------------------------
(***************************************************************************)
(* What a rule says of an event.                                           *)
(***************************************************************************)

Ids(s) == s.start .. s.start + s.count - 1

\* The predicates of a selection are grouped.
GroupedIn(d, s) ==
  /\ \A j \in Ids(s) : d.preds[j].group \in Nat \ {0}
  /\ \A j, k, l \in Ids(s) :
       j < k /\ k < l /\ d.preds[j].group = d.preds[l].group =>
         d.preds[j].group = d.preds[k].group

\* One of the predicates a .. b that are in the group of predicate i holds.
SomeOf(d, view, a, b, i) ==
  \E j \in a .. b : d.preds[j].group = d.preds[i].group /\ PredMatch(d, view, j)

SelStates(d, view, s) ==
  [ok : BOOLEAN, group : Nat, failed : BOOLEAN,
   reads : SUBSET UNION {PredReads(d, view, j) : j \in Ids(s)}]

\* What sel_match knows once it has gone through the predicates a .. e of a selection.
SelKnows(d, view, s, a, e, acc) ==
  IF acc.failed
  THEN ~acc.ok /\ \E i \in Ids(s) : ~SomeOf(d, view, a, s.start + s.count - 1, i)
  ELSE /\ \A i \in a .. e : d.preds[i].group # acc.group => SomeOf(d, view, a, e, i)
       /\ e < a => acc.group = 0 /\ ~acc.ok
       /\ a <= e => /\ acc.group = d.preds[e].group
                    /\ acc.ok <=> SomeOf(d, view, a, e, e)

LEMMA SelStepKnows ==
  ASSUME NEW d, NEW view, NEW s, s.start \in Nat, s.count \in Nat, GroupedIn(d, s),
         NEW e \in Int, e + 1 \in Ids(s), s.start <= e + 1,
         NEW acc \in SelStates(d, view, s), SelKnows(d, view, s, s.start, e, acc)
  PROVE  /\ SelStep(d, view, acc, e + 1) \in SelStates(d, view, s)
         /\ SelKnows(d, view, s, s.start, e + 1, SelStep(d, view, acc, e + 1))
<1>. DEFINE new == SelStep(d, view, acc, e + 1)
<1>0. PICK a, z : a = s.start /\ z = s.start + s.count - 1
  OBVIOUS
<1>1. /\ a \in Nat /\ z \in Int /\ e \in Int /\ e + 1 \in a .. z /\ Ids(s) = a .. z
      /\ a .. e + 1 \subseteq a .. z /\ e + 1 \in a .. e + 1
      /\ a .. e \subseteq a .. e + 1
      /\ \A i \in a .. e + 1 : i \in a .. e \/ i = e + 1
  BY <1>0 DEF Ids
<1>2. /\ acc.ok \in BOOLEAN /\ acc.failed \in BOOLEAN /\ acc.group \in Nat
      /\ acc = [ok |-> acc.ok, group |-> acc.group, failed |-> acc.failed,
                reads |-> acc.reads]
      /\ acc.reads \in SUBSET UNION {PredReads(d, view, j) : j \in Ids(s)}
  BY DEF SelStates
<1>3. PredMatch(d, view, e + 1) \in BOOLEAN /\ d.preds[e + 1].group \in Nat \ {0}
  BY <1>1 DEF PredMatch, GroupedIn
<1>4. CASE acc.failed
  <2>1. new = acc
    BY <1>4 DEF SelStep
  <2>. QED BY <1>4, <2>1 DEF SelKnows
<1>5. CASE ~acc.failed /\ d.preds[e + 1].group = acc.group /\ acc.ok
  <2>1. new = acc
    BY <1>5 DEF SelStep
  <2>2. a <= e
    BY <1>0, <1>1, <1>5 DEF SelKnows
  <2>3. SomeOf(d, view, a, e, e) /\ acc.group = d.preds[e].group
    BY <1>0, <1>5, <2>2 DEF SelKnows
  <2>4. SomeOf(d, view, a, e + 1, e + 1)
    BY <1>1, <1>5, <2>3 DEF SomeOf
  <2>5. \A i \in a .. e + 1 : d.preds[i].group # acc.group => SomeOf(d, view, a, e + 1, i)
    <3>1. \A i \in a .. e : d.preds[i].group # acc.group => SomeOf(d, view, a, e, i)
      BY <1>0, <1>5 DEF SelKnows
    <3>. QED BY <1>1, <1>5, <3>1 DEF SomeOf
  <2>6. ~(e + 1 < a)
    BY <1>1
  <2>. QED BY <1>0, <1>5, <2>1, <2>4, <2>5, <2>6 DEF SelKnows
<1>6. CASE ~acc.failed /\ d.preds[e + 1].group # acc.group /\ ~acc.ok /\ acc.group # 0
  <2>1. new = [acc EXCEPT !.failed = TRUE]
    BY <1>6 DEF SelStep
  <2>2. new.failed /\ ~new.ok /\ new \in SelStates(d, view, s)
    BY <1>2, <1>6, <2>1 DEF SelStates
  <2>3. a <= e
    BY <1>0, <1>1, <1>6 DEF SelKnows
  <2>4. acc.group = d.preds[e].group /\ ~SomeOf(d, view, a, e, e)
    BY <1>0, <1>6, <2>3 DEF SelKnows
  <2>5. e \in a .. z
    BY <1>1, <2>3
  <2>6. ASSUME NEW j \in e + 1 .. z PROVE d.preds[j].group # d.preds[e].group
    <3>1. j \in a .. z /\ (j = e + 1 \/ e + 1 < j) /\ e < e + 1
      BY <1>1
    <3>2. CASE j = e + 1
      BY <1>6, <2>4, <3>2
    <3>3. CASE e + 1 < j
      BY <1>1, <1>6, <2>4, <2>5, <3>1, <3>3 DEF GroupedIn
    <3>. QED BY <3>1, <3>2, <3>3
  <2>7. \A j \in a .. z : j \in a .. e \/ j \in e + 1 .. z
    BY <1>1
  <2>8. ~SomeOf(d, view, a, z, e)
    BY <2>4, <2>6, <2>7 DEF SomeOf
  <2>. QED BY <1>0, <1>1, <2>2, <2>5, <2>8 DEF SelKnows
<1>7. CASE ~acc.failed /\ ~(d.preds[e + 1].group = acc.group /\ acc.ok)
           /\ ~(d.preds[e + 1].group # acc.group /\ ~acc.ok /\ acc.group # 0)
  <2>1. new = [acc EXCEPT !.group = d.preds[e + 1].group,
                          !.ok    = PredMatch(d, view, e + 1),
                          !.reads = @ \cup PredReads(d, view, e + 1)]
    BY <1>7 DEF SelStep
  <2>2. /\ new.failed = FALSE /\ new.group = d.preds[e + 1].group
        /\ new.ok = PredMatch(d, view, e + 1)
    BY <1>2, <1>7, <2>1
  <2>3. new \in SelStates(d, view, s)
    <3>1. PICK R : R = UNION {PredReads(d, view, j) : j \in Ids(s)}
      OBVIOUS
    <3>2. acc.reads \cup PredReads(d, view, e + 1) \in SUBSET R
      BY <1>1, <1>2, <3>1
    <3>3. new = [ok |-> PredMatch(d, view, e + 1), group |-> d.preds[e + 1].group,
                 failed |-> FALSE, reads |-> acc.reads \cup PredReads(d, view, e + 1)]
      BY <1>2, <1>7, <2>1
    <3>4. SelStates(d, view, s) =
            [ok : BOOLEAN, group : Nat, failed : BOOLEAN, reads : SUBSET R]
      BY <3>1 DEF SelStates
    <3>5. d.preds[e + 1].group \in Nat
      BY <1>3
    <3>. HIDE DEF new
    <3>. QED BY <1>3, <3>2, <3>3, <3>4, <3>5
  <2>4. \A i \in a .. e : d.preds[i].group # acc.group => SomeOf(d, view, a, e, i)
    BY <1>0, <1>7 DEF SelKnows
  <2>5. a <= e => acc.group = d.preds[e].group /\ (acc.ok <=> SomeOf(d, view, a, e, e))
    BY <1>0, <1>7 DEF SelKnows
  <2>6. e < a => acc.group = 0
    BY <1>0, <1>7 DEF SelKnows
  <2>7. \A i \in a .. e : SomeOf(d, view, a, e, i) => SomeOf(d, view, a, e + 1, i)
    BY <1>1 DEF SomeOf
  <2>8. ASSUME NEW i \in a .. e + 1, d.preds[i].group # new.group
        PROVE  SomeOf(d, view, a, e + 1, i)
    <3>1. i \in a .. e
      BY <1>1, <2>2, <2>8
    <3>2. CASE d.preds[i].group # acc.group
      BY <2>4, <2>7, <3>1, <3>2
    <3>3. CASE d.preds[i].group = acc.group
      <4>1. a <= e /\ e \in a .. e
        BY <1>1, <3>1
      <4>2. d.preds[i].group \in Nat \ {0}
        BY <1>1 DEF GroupedIn
      <4>3. acc.ok
        BY <1>7, <2>2, <2>8, <3>3, <4>2
      <4>4. SomeOf(d, view, a, e, e) /\ d.preds[i].group = d.preds[e].group
        BY <2>5, <3>3, <4>1, <4>3
      <4>5. SomeOf(d, view, a, e, i)
        BY <4>4 DEF SomeOf
      <4>. QED BY <2>7, <3>1, <4>5
    <3>. QED BY <3>2, <3>3
  <2>9. new.ok <=> SomeOf(d, view, a, e + 1, e + 1)
    <3>1. PredMatch(d, view, e + 1) => SomeOf(d, view, a, e + 1, e + 1)
      BY <1>1 DEF SomeOf
    <3>2. ASSUME SomeOf(d, view, a, e + 1, e + 1), ~PredMatch(d, view, e + 1)
          PROVE  FALSE
      <4>1. PICK j \in a .. e : /\ d.preds[j].group = d.preds[e + 1].group
                                /\ PredMatch(d, view, j)
        BY <1>1, <3>2 DEF SomeOf
      <4>2. a <= e /\ e \in a .. e /\ e \in a .. z /\ j \in a .. z /\ (j = e \/ j < e)
            /\ e < e + 1
        BY <1>1
      <4>3. d.preds[j].group = d.preds[e].group
        BY <1>1, <4>1, <4>2 DEF GroupedIn
      <4>4. SomeOf(d, view, a, e, e)
        BY <4>1, <4>3 DEF SomeOf
      <4>. QED BY <1>7, <2>5, <4>1, <4>2, <4>3, <4>4
    <3>. QED BY <2>2, <3>1, <3>2
  <2>10. ~(e + 1 < a) /\ new.group = d.preds[e + 1].group
    BY <1>1, <2>2
  <2>11. SelKnows(d, view, s, a, e + 1, new)
    <3>. HIDE DEF new
    <3>. QED BY <2>2, <2>8, <2>9, <2>10 DEF SelKnows
  <2>. QED BY <1>0, <2>3, <2>11
<1>. QED BY <1>4, <1>5, <1>6, <1>7

\* sel_match stops early and skips the rest of a true group, but where the predicates
\* are grouped its verdict is that of all groups.
LEMMA SelIsMeant ==
  ASSUME NEW d, NEW view, NEW s, s.start \in Nat, s.count \in Nat, GroupedIn(d, s)
  PROVE  SelMatch(d, view, s).ok \in BOOLEAN /\ (SelMatch(d, view, s).ok <=> SelHolds(d, view, s))
<1>0. PICK a, n : a = s.start /\ n = s.count /\ a \in Nat /\ n \in Nat
  OBVIOUS
<1>. DEFINE P == {acc \in SelStates(d, view, s) :
                    \E e \in a - 1 .. a + n - 1 : SelKnows(d, view, s, a, e, acc)}
            Q == SelStates(d, view, s)
<1>1. Ids(s) = a .. a + n - 1
  BY <1>0 DEF Ids
<1>2. SelStart \in Q /\ SelKnows(d, view, s, a, a - 1, SelStart)
  <2>1. SelStart \in Q
    BY DEF SelStart, SelStates
  <2>2. a - 1 < a /\ ~(a <= a - 1) /\ \A i \in a .. a - 1 : FALSE
    BY <1>0
  <2>3. ~SelStart.failed /\ SelStart.group = 0 /\ ~SelStart.ok
    BY DEF SelStart
  <2>. QED BY <2>1, <2>2, <2>3 DEF SelKnows
<1>3. ASSUME NEW acc \in Q, NEW i \in 1 .. n PROVE SelStep(d, view, acc, a + i - 1) \in Q
  <2>1. PICK j : j = a + i - 1 /\ j \in Ids(s)
    BY <1>0, <1>1
  <2>2. PredMatch(d, view, j) \in BOOLEAN /\ d.preds[j].group \in Nat
    BY <2>1 DEF PredMatch, GroupedIn
  <2>3. SelStep(d, view, acc, j) \in Q
    BY <2>1, <2>2 DEF SelStep, SelStates
  <2>. QED BY <2>1, <2>3
<1>4. PICK h \in [0 .. n -> Q] :
        /\ h[0] = SelStart
        /\ \A i \in 1 .. n : h[i] = SelStep(d, view, h[i - 1], a + i - 1)
        /\ SelMatch(d, view, s) = h[n]
  <2>1. SelStaysIn(Q, n, d, view, s)
    BY <1>0, <1>3 DEF SelStaysIn
  <2>. HIDE DEF Q
  <2>2. SelRuns(Q, n, d, view, s)
    BY <1>0, <1>2, <2>1, SelTrace
  <2>. QED BY <1>0, <2>2 DEF SelRuns
<1>. DEFINE T == {i \in Nat : i <= n => SelKnows(d, view, s, a, a + i - 1, h[i])}
<1>5. 0 \in T
  <2>1. a + 0 - 1 = a - 1
    BY <1>0
  <2>. QED BY <1>2, <1>4, <2>1
<1>6. ASSUME NEW i \in Nat, i \in T PROVE i + 1 \in T
  <2>1. SUFFICES ASSUME i + 1 <= n PROVE SelKnows(d, view, s, a, a + (i + 1) - 1, h[i + 1])
    OBVIOUS
  <2>2. PICK e \in Int : e = a + i - 1 /\ e + 1 = a + (i + 1) - 1 /\ a <= e + 1
                         /\ e + 1 \in Ids(s)
    <3>1. /\ a + i - 1 \in Int /\ (a + i - 1) + 1 = a + (i + 1) - 1
          /\ a <= (a + i - 1) + 1 /\ (a + i - 1) + 1 \in a .. a + n - 1
      BY <1>0, <2>1
    <3>. QED BY <1>1, <3>1
  <2>3. /\ i + 1 \in 1 .. n /\ i \in 0 .. n /\ (i + 1) - 1 = i /\ i <= n
    BY <1>0, <2>1
  <2>4. PICK acc \in Q : acc = h[i]
    BY <1>4, <2>3
  <2>5. SelKnows(d, view, s, a, e, acc)
    BY <1>6, <2>2, <2>3, <2>4
  <2>6. h[i + 1] = SelStep(d, view, acc, e + 1)
    BY <1>4, <2>2, <2>3, <2>4
  <2>7. SelKnows(d, view, s, a, e + 1, SelStep(d, view, acc, e + 1))
    BY <1>0, <2>2, <2>4, <2>5, SelStepKnows
  <2>. QED BY <2>2, <2>6, <2>7
<1>7. SelKnows(d, view, s, a, a + n - 1, h[n])
  <2>1. \A i \in Nat : i \in T => i + 1 \in T
    BY <1>6
  <2>. HIDE DEF T
  <2>2. n \in T
    BY <1>0, <1>5, <2>1, SetInduction
  <2>. QED BY <1>0, <2>2 DEF T
<1>8. PICK z, acc : z = a + n - 1 /\ acc = h[n] /\ z = s.start + s.count - 1
                    /\ acc = SelMatch(d, view, s) /\ acc.ok \in BOOLEAN
  BY <1>0, <1>4 DEF SelStates
<1>9. SelKnows(d, view, s, a, z, acc)
  BY <1>7, <1>8
<1>10. SelHolds(d, view, s) <=> Ids(s) # {} /\ \A i \in Ids(s) : SomeOf(d, view, a, z, i)
  BY <1>0, <1>1, <1>8 DEF SelHolds, SomeOf, Ids
<1>11. CASE acc.failed
  BY <1>1, <1>8, <1>9, <1>10, <1>11 DEF SelKnows
<1>12. CASE ~acc.failed /\ n = 0
  <2>1. Ids(s) = {} /\ z < a
    BY <1>0, <1>1, <1>8, <1>12
  <2>2. ~acc.ok
    BY <1>9, <1>12, <2>1 DEF SelKnows
  <2>. QED BY <1>8, <1>10, <2>1, <2>2
<1>13. CASE ~acc.failed /\ n # 0
  <2>1. a <= z /\ z \in Ids(s) /\ Ids(s) = a .. z
    BY <1>0, <1>1, <1>8, <1>13
  <2>2. /\ acc.group = d.preds[z].group
        /\ acc.ok <=> SomeOf(d, view, a, z, z)
        /\ \A i \in a .. z : d.preds[i].group # acc.group => SomeOf(d, view, a, z, i)
    BY <1>9, <1>13, <2>1 DEF SelKnows
  <2>3. \A i \in a .. z : d.preds[i].group = acc.group =>
          (SomeOf(d, view, a, z, i) <=> SomeOf(d, view, a, z, z))
    BY <2>2 DEF SomeOf
  <2>. QED BY <1>8, <1>10, <2>1, <2>2, <2>3
<1>. QED BY <1>0, <1>11, <1>12, <1>13

\* The entries of a slice within a table.
LEMMA SliceEntries ==
  ASSUME NEW T, NEW table \in Seq(T), NEW s \in Slices, Within(table, s)
  PROVE  /\ Slice(table, s) \in Seq(T)
         /\ DOMAIN Slice(table, s) = 1 .. s.count /\ Len(Slice(table, s)) = s.count
         /\ \A i \in 1 .. s.count : /\ s.start + i - 1 \in DOMAIN table
                                    /\ Slice(table, s)[i] = table[s.start + i - 1]
<1>1. PICK m, n, c : m = s.start /\ n = s.start + s.count - 1 /\ c = s.count
  OBVIOUS
<1>2. m \in 1 .. Len(table) + 1 /\ n \in m - 1 .. Len(table) /\ n \in Int /\ m \in Int
      /\ c \in Nat /\ n = m + c - 1
  BY <1>1 DEF Slices, Within
<1>3. /\ SubSeq(table, m, n) \in Seq(T)
      /\ Len(SubSeq(table, m, n)) = n - m + 1
      /\ \A i \in 1 .. n - m + 1 : SubSeq(table, m, n)[i] = table[m + i - 1]
  BY <1>2, SubSeqProperties
<1>4. n - m + 1 = c
  BY <1>2
<1>5. \A i \in 1 .. c : m + i - 1 \in DOMAIN table
  BY <1>2
<1>6. DOMAIN SubSeq(table, m, n) = 1 .. c
  BY <1>3, <1>4
<1>. QED BY <1>1, <1>3, <1>4, <1>5, <1>6 DEF Slice

Tokens == {"sel", "not", "and", "or"}

\* A rule as the loader leaves it: its slices are within the tables, its selections
\* are grouped and its tokens are tokens.
RuleTyped(d, r) ==
  /\ r.sels \in Slices /\ d.sels \in Seq(Slices) /\ Within(d.sels, r.sels)
  /\ \A k \in 1 .. r.sels.count : GroupedIn(d, d.sels[r.sels.start + k - 1])
  /\ r.cond \in Slices /\ d.cond \in Seq(ToSet(d.cond)) /\ Within(d.cond, r.cond)
  /\ \A i \in DOMAIN d.cond : /\ d.cond[i].kind \in Tokens
                              /\ d.cond[i].kind = "sel" => d.cond[i].sel \in Nat \ {0}

\* The truth of the selections of a rule.
TruthOfSels(d, view, r) ==
  [k \in 1 .. r.sels.count |-> SelHolds(d, view, d.sels[r.sels.start + k - 1])]

LEMMA SelsAreMeant ==
  ASSUME NEW d, NEW view, NEW r, RuleTyped(d, r), NEW k \in 1 .. r.sels.count
  PROVE  /\ SelMatch(d, view, d.sels[r.sels.start + k - 1]).ok \in BOOLEAN
         /\ TruthOfSels(d, view, r)[k] \in BOOLEAN
         /\ SelMatch(d, view, d.sels[r.sels.start + k - 1]).ok
              <=> TruthOfSels(d, view, r)[k]
         /\ Slice(d.sels, r.sels)[k] = d.sels[r.sels.start + k - 1]
<1>1. PICK s : s = d.sels[r.sels.start + k - 1]
  OBVIOUS
<1>2. s \in Slices /\ Slice(d.sels, r.sels)[k] = s
  BY <1>1, SliceEntries DEF RuleTyped
<1>3. s.start \in Nat /\ s.count \in Nat /\ GroupedIn(d, s)
  BY <1>1, <1>2 DEF RuleTyped, Slices
<1>4. SelMatch(d, view, s).ok \in BOOLEAN /\ (SelMatch(d, view, s).ok <=> SelHolds(d, view, s))
  BY <1>3, SelIsMeant
<1>5. TruthOfSels(d, view, r)[k] = SelHolds(d, view, s)
  BY <1>1 DEF TruthOfSels
<1>6. SelHolds(d, view, s) \in BOOLEAN
  BY DEF SelHolds
<1>. QED BY <1>1, <1>2, <1>4, <1>5, <1>6

\* rule_match without a condition.
LEMMA AllIsMeant ==
  ASSUME NEW d, NEW view, NEW r, RuleTyped(d, r)
  PROVE  /\ RunAll(d, view, r).ok \in BOOLEAN
         /\ RunAll(d, view, r).ok <=>
              r.sels.count # 0 /\ \A k \in 1 .. r.sels.count : TruthOfSels(d, view, r)[k]
<1>0. PICK n \in Nat : n = r.sels.count
  BY DEF RuleTyped, Slices
<1>. DEFINE sels == Slice(d.sels, r.sels)
            R == UNION {SelMatch(d, view, sels[k]).reads : k \in 1 .. n}
            P == [ok : BOOLEAN, reads : SUBSET R]
            T == TruthOfSels(d, view, r)
<1>1. DOMAIN sels = 1 .. n
  BY <1>0, SliceEntries DEF RuleTyped
<1>2. ASSUME NEW k \in 1 .. n
      PROVE  SelMatch(d, view, sels[k]).ok \in BOOLEAN /\ T[k] \in BOOLEAN
             /\ (SelMatch(d, view, sels[k]).ok <=> T[k])
  BY <1>0, SelsAreMeant
<1>. HIDE DEF sels, T
<1>3. ASSUME NEW acc \in P, NEW k \in 1 .. n
      PROVE  /\ AndStep(d, view, acc, sels[k]) \in P
             /\ AndStep(d, view, acc, sels[k]).ok <=> acc.ok /\ T[k]
  <2>1. acc.ok \in BOOLEAN /\ acc.reads \in SUBSET R
    OBVIOUS
  <2>2. CASE acc.ok
    <3>1. PICK m : m = SelMatch(d, view, sels[k])
      OBVIOUS
    <3>2. m.reads \subseteq R /\ m.ok \in BOOLEAN /\ (m.ok <=> T[k])
      BY <1>2, <3>1
    <3>3. acc.reads \cup m.reads \in SUBSET R
      BY <2>1, <3>2
    <3>4. AndStep(d, view, acc, sels[k]) = [ok |-> m.ok, reads |-> acc.reads \cup m.reads]
      BY <2>2, <3>1 DEF AndStep, After
    <3>. HIDE DEF R
    <3>. QED BY <2>2, <3>2, <3>3, <3>4
  <2>3. CASE ~acc.ok
    BY <2>3 DEF AndStep
  <2>. QED BY <2>1, <2>2, <2>3
<1>4. PICK h \in [0 .. n -> P] :
        /\ h[0] = AndStart(r)
        /\ \A i \in 1 .. n : h[i] = AndStep(d, view, h[i - 1], sels[i])
        /\ RunAll(d, view, r) = h[n]
  <2>1. AndStaysIn(P, n, d, view, r)
    BY <1>3 DEF AndStaysIn, sels
  <2>2. AndStart(r) \in P
    BY <1>0 DEF AndStart
  <2>3. DOMAIN Slice(d.sels, r.sels) = 1 .. n
    BY <1>1 DEF sels
  <2>. HIDE DEF P
  <2>4. AndRuns(P, n, d, view, r)
    BY <2>1, <2>2, <2>3, AndTrace
  <2>. QED BY <2>4 DEF AndRuns, sels
<1>. HIDE DEF P
<1>. DEFINE Q == {i \in Nat : i <= n => (h[i].ok <=> n # 0 /\ \A k \in 1 .. i : T[k])}
<1>5. 0 \in Q
  <2>0. AndStart(r).ok <=> r.sels.count > 0
    BY DEF AndStart
  <2>1. h[0].ok <=> n > 0
    BY <1>0, <1>4, <2>0
  <2>. QED BY <1>0, <2>1
<1>6. ASSUME NEW i \in Nat, i \in Q PROVE i + 1 \in Q
  <2>1. SUFFICES ASSUME i + 1 <= n
                 PROVE  h[i + 1].ok <=> n # 0 /\ \A k \in 1 .. i + 1 : T[k]
    OBVIOUS
  <2>2. i + 1 \in 1 .. n /\ i \in 0 .. n /\ (i + 1) - 1 = i /\ i <= n
    BY <1>0, <2>1
  <2>3. h[i + 1] = AndStep(d, view, h[i], sels[i + 1]) /\ h[i] \in P
    BY <1>4, <2>2
  <2>4. h[i + 1].ok <=> h[i].ok /\ T[i + 1]
    BY <1>3, <2>2, <2>3
  <2>5. \A k : k \in 1 .. i + 1 <=> k \in 1 .. i \/ k = i + 1
    OBVIOUS
  <2>6. h[i].ok <=> n # 0 /\ \A k \in 1 .. i : T[k]
    BY <1>6, <2>2
  <2>. QED BY <2>4, <2>5, <2>6
<1>7. n \in Q
  <2>1. \A i \in Nat : i \in Q => i + 1 \in Q
    BY <1>6
  <2>. HIDE DEF Q
  <2>. QED BY <1>0, <1>5, <2>1, SetInduction
<1>8. h[n].ok <=> n # 0 /\ \A k \in 1 .. n : T[k]
  BY <1>0, <1>7
<1>9. h[n].ok \in BOOLEAN
  BY <1>0, <1>4 DEF P
<1>. QED BY <1>0, <1>4, <1>8, <1>9 DEF T

-----------------------------------------------------------------------------
\* The top of a stack.

LEMMA PushTop ==
  ASSUME NEW S, NEW s \in Seq(S), NEW x \in S
  PROVE  /\ Append(s, x) \in Seq(S) /\ Len(Append(s, x)) = Len(s) + 1
         /\ \A i \in 1 .. Len(s) : Append(s, x)[i] = s[i]
         /\ Append(s, x)[Len(s) + 1] = x
OBVIOUS

LEMMA ReplaceTop ==
  ASSUME NEW S, NEW s \in Seq(S), NEW n \in 1 .. Len(s), n = Len(s), NEW x \in S
  PROVE  /\ [s EXCEPT ![n] = x] \in Seq(S) /\ Len([s EXCEPT ![n] = x]) = n
         /\ \A i \in 1 .. n : [s EXCEPT ![n] = x][i] = IF i = n THEN x ELSE s[i]
BY ExceptSeq

LEMMA DropTwo ==
  ASSUME NEW S, NEW s \in Seq(S), NEW n \in Nat, n = Len(s), n >= 2
  PROVE  /\ SubSeq(s, 1, n - 2) \in Seq(S) /\ Len(SubSeq(s, 1, n - 2)) = n - 2
         /\ \A i \in 1 .. n - 2 : SubSeq(s, 1, n - 2)[i] = s[i]
<1>2. 1 \in 1 .. Len(s) + 1 /\ n - 2 \in 1 - 1 .. Len(s) /\ (n - 2) - 1 + 1 = n - 2
  OBVIOUS
<1>3. /\ SubSeq(s, 1, n - 2) \in Seq(S) /\ Len(SubSeq(s, 1, n - 2)) = (n - 2) - 1 + 1
      /\ \A i \in 1 .. (n - 2) - 1 + 1 : SubSeq(s, 1, n - 2)[i] = s[1 + i - 1]
  BY <1>2, SubSeqProperties
<1>4. \A i \in 1 .. n - 2 : 1 + i - 1 = i
  OBVIOUS
<1>. QED BY <1>2, <1>3, <1>4

-----------------------------------------------------------------------------
\* The stack of a condition.

CellsOf(r) == [sel : 0 .. r.sels.count, neg : BOOLEAN]

RpnReads(d, view, r) == UNION {RpnForce(d, view, r, c).reads : c \in CellsOf(r)}

RpnStates(d, view, r) ==
  [stack : Seq(CellsOf(r)), reads : SUBSET RpnReads(d, view, r), bad : BOOLEAN]

TokenTyped(t) == t.kind \in Tokens /\ (t.kind = "sel" => t.sel \in Nat \ {0})

\* A stack of cells stands for a stack of booleans.
Agrees(d, view, r, stack, b) ==
  /\ Len(b) = Len(stack)
  /\ \A i \in 1 .. Len(stack) :
       b[i] \in BOOLEAN /\ (b[i] <=> RpnForce(d, view, r, stack[i]).ok)

Flip(c) == [c EXCEPT !.neg = ~@]

\* What rpn_force gives for a cell.
LEMMA ForceIs ==
  ASSUME NEW d, NEW view, NEW r, RuleTyped(d, r)
  PROVE  /\ \A c \in CellsOf(r) : RpnForce(d, view, r, c).ok \in BOOLEAN
         /\ \A c \in CellsOf(r) : RpnForce(d, view, r, c).reads \in SUBSET RpnReads(d, view, r)
         /\ \A v \in BOOLEAN : RpnForce(d, view, r, Cell(0, v)).ok = v /\ Cell(0, v) \in CellsOf(r)
         /\ \A k \in 1 .. r.sels.count :
              /\ Cell(k, FALSE) \in CellsOf(r)
              /\ RpnForce(d, view, r, Cell(k, FALSE)).ok <=> TruthOfSels(d, view, r)[k]
         /\ \A c \in CellsOf(r) :
              /\ Flip(c) \in CellsOf(r)
              /\ RpnForce(d, view, r, Flip(c)).ok <=> ~RpnForce(d, view, r, c).ok
<1>0. PICK n \in Nat : n = r.sels.count
  BY DEF RuleTyped, Slices
<1>. DEFINE ok(k) == SelMatch(d, view, d.sels[r.sels.start + k - 1]).ok
<1>1. \A k \in 1 .. n : ok(k) \in BOOLEAN /\ (ok(k) <=> TruthOfSels(d, view, r)[k])
  BY <1>0, SelsAreMeant
<1>2. \A c : RpnForce(d, view, r, c).ok = IF c.sel = 0 THEN c.neg ELSE ok(c.sel) # c.neg
  BY DEF RpnForce, Negated
<1>. HIDE DEF ok
<1>3. \A c \in CellsOf(r) : c.sel \in 0 .. n /\ c.neg \in BOOLEAN
  BY <1>0 DEF CellsOf
<1>4. \A c \in CellsOf(r) : c.sel # 0 => c.sel \in 1 .. n
  BY <1>0, <1>3
<1>5. \A c \in CellsOf(r) : RpnForce(d, view, r, c).ok \in BOOLEAN
  BY <1>1, <1>2, <1>3, <1>4
<1>6. \A c \in CellsOf(r) : RpnForce(d, view, r, c).reads \in SUBSET RpnReads(d, view, r)
  BY DEF RpnReads
<1>7. \A v \in BOOLEAN : RpnForce(d, view, r, Cell(0, v)).ok = v /\ Cell(0, v) \in CellsOf(r)
  BY <1>0, <1>2 DEF Cell, CellsOf
<1>8. ASSUME NEW k \in 1 .. n
      PROVE  /\ Cell(k, FALSE) \in CellsOf(r)
             /\ RpnForce(d, view, r, Cell(k, FALSE)).ok <=> TruthOfSels(d, view, r)[k]
  <2>1. Cell(k, FALSE).sel = k /\ Cell(k, FALSE).neg = FALSE /\ k # 0
    BY DEF Cell
  <2>2. Cell(k, FALSE) \in CellsOf(r)
    BY <1>0 DEF Cell, CellsOf
  <2>3. RpnForce(d, view, r, Cell(k, FALSE)).ok = (ok(k) # FALSE)
    BY <1>2, <2>1
  <2>. QED BY <1>1, <2>2, <2>3
<1>9. ASSUME NEW c \in CellsOf(r)
      PROVE  /\ Flip(c) \in CellsOf(r)
             /\ RpnForce(d, view, r, Flip(c)).ok <=> ~RpnForce(d, view, r, c).ok
  <2>1. PICK e : e = Flip(c)
    OBVIOUS
  <2>2. e \in CellsOf(r) /\ e.sel = c.sel /\ e.neg = ~c.neg
    BY <2>1 DEF CellsOf, Flip
  <2>3. CASE c.sel = 0
    BY <1>2, <1>3, <2>1, <2>2, <2>3
  <2>4. CASE c.sel # 0
    <3>1. RpnForce(d, view, r, e).ok = (ok(c.sel) # e.neg)
      BY <1>2, <2>2, <2>4
    <3>2. RpnForce(d, view, r, c).ok = (ok(c.sel) # c.neg)
      BY <1>2, <2>4
    <3>3. ok(c.sel) \in BOOLEAN /\ c.neg \in BOOLEAN
      BY <1>1, <1>3, <1>4, <2>4
    <3>. QED BY <2>1, <2>2, <3>1, <3>2, <3>3
  <2>. QED BY <2>3, <2>4
<1>. QED BY <1>0, <1>5, <1>6, <1>7, <1>8, <1>9

\* rpn_force on the operands of AND and OR, the right one only when it matters.
LEMMA CombineIs ==
  ASSUME NEW kind \in {"and", "or"}, NEW left, NEW right,
         left.ok \in BOOLEAN, right.ok \in BOOLEAN
  PROVE  /\ Combine(kind, left, right).ok \in BOOLEAN
         /\ kind = "and" => (Combine(kind, left, right).ok <=> left.ok /\ right.ok)
         /\ kind = "or" => (Combine(kind, left, right).ok <=> left.ok \/ right.ok)
         /\ Combine(kind, left, right).reads \subseteq left.reads \cup right.reads
<1>1. CASE kind = "and"
  BY <1>1 DEF Combine, After
<1>2. CASE kind = "or"
  BY <1>2 DEF Combine, After
<1>. QED BY <1>1, <1>2

Malformed(stack, r, t) ==
  \/ t.kind = "sel" /\ (Len(stack) >= CondStackMax \/ t.sel > r.sels.count)
  \/ t.kind = "not" /\ Len(stack) < 1
  \/ t.kind \in {"and", "or"} /\ Len(stack) < 2

\* The stack after a well-formed token.
StackAfter(d, view, r, stack, t) ==
  LET n == Len(stack)
  IN CASE t.kind = "sel" -> Append(stack, Cell(t.sel, FALSE))
       [] t.kind = "not" -> [stack EXCEPT ![n] = Flip(stack[n])]
       [] t.kind \in {"and", "or"} ->
            Append(SubSeq(stack, 1, n - 2),
                   Cell(0, Combine(t.kind, RpnForce(d, view, r, stack[n - 1]),
                                           RpnForce(d, view, r, stack[n])).ok))

\* A token keeps the stack of cells in step with that of booleans.
LEMMA TokenAgrees ==
  ASSUME NEW d, NEW view, NEW r, RuleTyped(d, r), NEW t, TokenTyped(t),
         NEW stack \in Seq(CellsOf(r)), ~Malformed(stack, r, t),
         NEW B, NEW b \in Seq(B), BOOLEAN \subseteq B, Agrees(d, view, r, stack, b)
  PROVE  /\ StackAfter(d, view, r, stack, t) \in Seq(CellsOf(r))
         /\ Agrees(d, view, r, StackAfter(d, view, r, stack, t),
                   Evaluated(TruthOfSels(d, view, r), b, t))
         /\ Len(StackAfter(d, view, r, stack, t)) =
              CASE t.kind = "sel" -> Len(stack) + 1
                [] t.kind = "not" -> Len(stack)
                [] OTHER -> Len(stack) - 1
<1>00. PICK C : C = CellsOf(r) /\ stack \in Seq(C)
  OBVIOUS
<1>. DEFINE F(c) == RpnForce(d, view, r, c).ok
            T == TruthOfSels(d, view, r)
            new == StackAfter(d, view, r, stack, t)
            val == Evaluated(T, b, t)
<1>0. PICK n : n = Len(stack) /\ n \in Nat /\ n = Len(b)
  BY DEF Agrees
<1>1. \A i \in 1 .. n : b[i] \in BOOLEAN /\ (b[i] <=> F(stack[i])) /\ stack[i] \in C
  BY <1>00, <1>0 DEF Agrees
<1>2. /\ \A c \in C : F(c) \in BOOLEAN
      /\ \A v \in BOOLEAN : F(Cell(0, v)) = v /\ Cell(0, v) \in C
      /\ \A k \in 1 .. r.sels.count : Cell(k, FALSE) \in C /\ (F(Cell(k, FALSE)) <=> T[k])
      /\ \A c \in C : /\ Flip(c) \in C
                      /\ F(Flip(c)) <=> ~F(c)
  BY <1>00, ForceIs
<1>3. t.kind \in Tokens
  BY DEF TokenTyped
<1>4. CASE t.kind = "sel"
  <2>1. PICK k : k = t.sel /\ k \in 1 .. r.sels.count
    <3>1. r.sels.count \in Nat /\ t.sel \in Nat \ {0} /\ ~(t.sel > r.sels.count)
      BY <1>4 DEF RuleTyped, Slices, TokenTyped, Malformed
    <3>. QED BY <3>1
  <2>2. PICK c, v : c = Cell(k, FALSE) /\ v = T[k] /\ c \in C /\ v \in BOOLEAN /\ (F(c) <=> v)
    <3>1. T[k] \in BOOLEAN
      BY <2>1, SelsAreMeant
    <3>2. Cell(k, FALSE) \in C /\ (F(Cell(k, FALSE)) <=> T[k])
      BY <1>2, <2>1
    <3>. HIDE DEF F, T
    <3>. QED BY <3>1, <3>2
  <2>3. new = Append(stack, c) /\ val = Append(b, v)
    BY <1>4, <2>1, <2>2 DEF StackAfter, Evaluated
  <2>. HIDE DEF new, val, F
  <2>4. /\ new \in Seq(C) /\ Len(new) = n + 1 /\ Len(val) = n + 1
        /\ \A i \in 1 .. n : new[i] = stack[i] /\ val[i] = b[i]
        /\ new[n + 1] = c /\ val[n + 1] = v
    <3>1. stack \in Seq(C) /\ c \in C /\ v \in B
      BY <1>00, <2>2
    <3>2. /\ Append(stack, c) \in Seq(C) /\ Len(Append(stack, c)) = Len(stack) + 1
          /\ \A i \in 1 .. Len(stack) : Append(stack, c)[i] = stack[i]
          /\ Append(stack, c)[Len(stack) + 1] = c
      BY <3>1, PushTop
    <3>3. /\ Len(Append(b, v)) = Len(b) + 1
          /\ \A i \in 1 .. Len(b) : Append(b, v)[i] = b[i]
          /\ Append(b, v)[Len(b) + 1] = v
      BY <3>1, PushTop
    <3>. QED BY <1>0, <2>3, <3>2, <3>3
  <2>5. \A i \in 1 .. n + 1 : val[i] \in BOOLEAN /\ (val[i] <=> F(new[i]))
    <3>1. \A i \in 1 .. n + 1 : i \in 1 .. n \/ i = n + 1
      BY <1>0
    <3>. QED BY <1>1, <2>2, <2>4, <3>1
  <2>6. Agrees(d, view, r, new, val)
    BY <2>4, <2>5 DEF Agrees, F
  <2>. QED BY <1>00, <1>0, <1>4, <2>4, <2>6 DEF new, val
<1>5. CASE t.kind = "not"
  <2>1. n >= 1 /\ n \in 1 .. n
    BY <1>0, <1>5 DEF Malformed
  <2>2. PICK c, v : /\ c = Flip(stack[n]) /\ v = ~b[n]
                    /\ c \in C /\ v \in BOOLEAN /\ (F(c) <=> v)
    BY <1>1, <1>2, <2>1
  <2>3. new = [stack EXCEPT ![n] = c] /\ val = [b EXCEPT ![n] = v]
    <3>1. StackAfter(d, view, r, stack, t) = [stack EXCEPT ![n] = Flip(stack[n])]
      BY <1>0, <1>5 DEF StackAfter
    <3>2. Evaluated(T, b, t) = [b EXCEPT ![n] = ~b[n]]
      <4>. HIDE DEF T
      <4>. QED BY <1>00, <1>0, <1>5 DEF Evaluated
    <3>. QED BY <2>2, <3>1, <3>2
  <2>. HIDE DEF new, val, F
  <2>4. /\ new \in Seq(C) /\ Len(new) = n /\ Len(val) = n
        /\ \A i \in 1 .. n : i # n => new[i] = stack[i] /\ val[i] = b[i]
        /\ new[n] = c /\ val[n] = v
    <3>1. stack \in Seq(C) /\ c \in C /\ v \in B
      BY <1>00, <2>2
    <3>2. /\ [stack EXCEPT ![n] = c] \in Seq(C) /\ Len([stack EXCEPT ![n] = c]) = n
          /\ \A i \in 1 .. n : [stack EXCEPT ![n] = c][i] = IF i = n THEN c ELSE stack[i]
      <4>1. PICK u : u = stack
        OBVIOUS
      <4>2. u \in Seq(C) /\ n = Len(u) /\ n \in 1 .. Len(u)
        BY <1>0, <2>1, <3>1, <4>1
      <4>3. /\ [u EXCEPT ![n] = c] \in Seq(C) /\ Len([u EXCEPT ![n] = c]) = n
            /\ \A i \in 1 .. n : [u EXCEPT ![n] = c][i] = IF i = n THEN c ELSE u[i]
        BY <3>1, <4>2, ReplaceTop
      <4>. QED BY <4>1, <4>3
    <3>3. /\ Len([b EXCEPT ![n] = v]) = n
          /\ \A i \in 1 .. n : [b EXCEPT ![n] = v][i] = IF i = n THEN v ELSE b[i]
      BY <1>0, <2>1, <3>1, ReplaceTop
    <3>. QED BY <2>1, <2>3, <3>2, <3>3
  <2>5. \A i \in 1 .. n : val[i] \in BOOLEAN /\ (val[i] <=> F(new[i]))
    BY <1>1, <2>2, <2>4
  <2>6. Agrees(d, view, r, new, val)
    BY <2>4, <2>5 DEF Agrees, F
  <2>. QED BY <1>00, <1>0, <1>5, <2>4, <2>6 DEF new, val
<1>6. CASE t.kind \in {"and", "or"}
  <2>1. n >= 2 /\ n \in 1 .. n /\ n - 1 \in 1 .. n
    BY <1>0, <1>6 DEF Malformed
  <2>2. PICK m : m = Combine(t.kind, RpnForce(d, view, r, stack[n - 1]),
                                     RpnForce(d, view, r, stack[n])).ok
    OBVIOUS
  <2>3. F(stack[n - 1]) \in BOOLEAN /\ F(stack[n]) \in BOOLEAN
    BY <1>1, <1>2, <2>1
  <2>4. /\ m \in BOOLEAN
        /\ t.kind = "and" => (m <=> F(stack[n - 1]) /\ F(stack[n]))
        /\ t.kind = "or" => (m <=> F(stack[n - 1]) \/ F(stack[n]))
    BY <1>6, <2>2, <2>3, CombineIs
  <2>5. PICK v : /\ t.kind = "and" => v = (b[n - 1] /\ b[n])
                 /\ t.kind = "or" => v = (b[n - 1] \/ b[n])
    OBVIOUS
  <2>6. PICK c : c = Cell(0, m) /\ c \in C /\ v \in BOOLEAN /\ (F(c) <=> v)
    BY <1>1, <1>2, <1>6, <2>1, <2>4, <2>5
  <2>7. /\ new = Append(SubSeq(stack, 1, n - 2), c)
        /\ val = Append(SubSeq(b, 1, n - 2), v)
    BY <1>0, <1>6, <2>2, <2>5, <2>6 DEF StackAfter, Evaluated
  <2>. HIDE DEF new, val, F
  <2>8. PICK u, w : u = SubSeq(stack, 1, n - 2) /\ w = SubSeq(b, 1, n - 2)
    OBVIOUS
  <2>9. /\ u \in Seq(C) /\ Len(u) = n - 2 /\ w \in Seq(B) /\ Len(w) = n - 2
        /\ \A i \in 1 .. n - 2 : u[i] = stack[i] /\ w[i] = b[i]
    <3>1. stack \in Seq(C)
      BY <1>00
    <3>2. u \in Seq(C) /\ Len(u) = n - 2 /\ \A i \in 1 .. n - 2 : u[i] = stack[i]
      BY <1>0, <2>1, <2>8, <3>1, DropTwo
    <3>3. w \in Seq(B) /\ Len(w) = n - 2 /\ \A i \in 1 .. n - 2 : w[i] = b[i]
      BY <1>0, <2>1, <2>8, DropTwo
    <3>. QED BY <3>2, <3>3
  <2>10. /\ new \in Seq(C) /\ Len(new) = n - 1 /\ Len(val) = n - 1
         /\ \A i \in 1 .. n - 2 : new[i] = stack[i] /\ val[i] = b[i]
         /\ new[n - 1] = c /\ val[n - 1] = v
    <3>1. n - 2 \in Nat /\ (n - 2) + 1 = n - 1 /\ v \in B
      BY <1>0, <2>1, <2>6
    <3>2. new = Append(u, c) /\ val = Append(w, v)
      BY <2>7, <2>8
    <3>3. /\ Append(u, c) \in Seq(C) /\ Len(Append(u, c)) = Len(u) + 1
          /\ \A i \in 1 .. Len(u) : Append(u, c)[i] = u[i]
          /\ Append(u, c)[Len(u) + 1] = c
      BY <2>6, <2>9, PushTop
    <3>4. /\ Len(Append(w, v)) = Len(w) + 1
          /\ \A i \in 1 .. Len(w) : Append(w, v)[i] = w[i]
          /\ Append(w, v)[Len(w) + 1] = v
      BY <2>9, <3>1, PushTop
    <3>. QED BY <2>9, <3>1, <3>2, <3>3, <3>4
  <2>11. \A i \in 1 .. n - 1 : val[i] \in BOOLEAN /\ (val[i] <=> F(new[i]))
    <3>1. \A i \in 1 .. n - 1 : i \in 1 .. n - 2 \/ i = n - 1
      BY <1>0
    <3>2. \A i \in 1 .. n - 2 : i \in 1 .. n
      BY <1>0
    <3>. QED BY <1>1, <2>6, <2>10, <3>1, <3>2
  <2>12. Agrees(d, view, r, new, val)
    BY <2>10, <2>11 DEF Agrees, F
  <2>. QED BY <1>00, <1>0, <1>6, <2>10, <2>12 DEF new, val
<1>. QED BY <1>3, <1>4, <1>5, <1>6 DEF Tokens

\* One token of the condition, on the stack alone.
LEMMA RpnStepIs ==
  ASSUME NEW d, NEW view, NEW r, RuleTyped(d, r), NEW t, TokenTyped(t),
         NEW acc \in RpnStates(d, view, r)
  PROVE  /\ RpnStep(d, view, r, acc, t) \in RpnStates(d, view, r)
         /\ acc.bad \/ Malformed(acc.stack, r, t) => RpnStep(d, view, r, acc, t).bad
         /\ ~acc.bad /\ ~Malformed(acc.stack, r, t) =>
              /\ ~RpnStep(d, view, r, acc, t).bad
              /\ RpnStep(d, view, r, acc, t).stack = StackAfter(d, view, r, acc.stack, t)
<1>. DEFINE new == RpnStep(d, view, r, acc, t)
            b == [i \in 1 .. Len(acc.stack) |-> RpnForce(d, view, r, acc.stack[i]).ok]
<1>1. PICK C, R, stack, n :
        /\ C = CellsOf(r) /\ R = RpnReads(d, view, r) /\ stack = acc.stack /\ n = Len(stack)
        /\ n \in Nat /\ stack \in Seq(C) /\ acc.reads \in SUBSET R /\ acc.bad \in BOOLEAN
  BY DEF RpnStates
<1>2. RpnStates(d, view, r) = [stack : Seq(C), reads : SUBSET R, bad : BOOLEAN]
  BY <1>1 DEF RpnStates
<1>3. acc = [stack |-> stack, reads |-> acc.reads, bad |-> acc.bad]
  BY <1>1 DEF RpnStates
<1>4. CASE acc.bad \/ Malformed(stack, r, t)
  <2>1. new = [acc EXCEPT !.bad = TRUE]
    BY <1>1, <1>4 DEF RpnStep, Malformed
  <2>2. new \in RpnStates(d, view, r) /\ new.bad
    BY <2>1 DEF RpnStates
  <2>. QED BY <1>1, <1>4, <2>2
<1>5. CASE ~(acc.bad \/ Malformed(stack, r, t))
  <2>1. b \in Seq(BOOLEAN) /\ Agrees(d, view, r, stack, b)
    <3>1. \A i \in 1 .. n : RpnForce(d, view, r, stack[i]).ok \in BOOLEAN
      <4>1. \A i \in 1 .. n : stack[i] \in C
        BY <1>1
      <4>. QED BY <1>1, <4>1, ForceIs
    <3>2. b \in [1 .. n -> BOOLEAN]
      BY <1>1, <3>1
    <3>3. b \in Seq(BOOLEAN) /\ Len(b) = n
      BY <1>1, <3>2
    <3>4. \A i \in 1 .. n : b[i] = RpnForce(d, view, r, stack[i]).ok
      BY <1>1
    <3>. HIDE DEF b
    <3>. QED BY <1>1, <3>1, <3>3, <3>4 DEF Agrees
  <2>2. StackAfter(d, view, r, stack, t) \in Seq(C)
    <3>. HIDE DEF b
    <3>1. PICK u : u = stack
      OBVIOUS
    <3>2. u \in Seq(CellsOf(r)) /\ ~Malformed(u, r, t) /\ Agrees(d, view, r, u, b)
      BY <1>1, <1>5, <2>1, <3>1
    <3>3. PICK B : B = BOOLEAN /\ b \in Seq(B)
      BY <2>1
    <3>4. StackAfter(d, view, r, u, t) \in Seq(CellsOf(r))
      BY <3>2, <3>3, TokenAgrees
    <3>. QED BY <1>1, <3>1, <3>4
  <2>3. PICK s : s = StackAfter(d, view, r, stack, t)
    OBVIOUS
  <2>4. \E reads \in SUBSET R : new = [stack |-> s, reads |-> reads, bad |-> FALSE]
    <3>1. CASE t.kind = "sel"
      <4>1. new = [acc EXCEPT !.stack = Append(@, Cell(t.sel, FALSE))]
        BY <1>1, <1>5, <3>1 DEF RpnStep, Malformed
      <4>2. s = Append(stack, Cell(t.sel, FALSE))
        BY <2>3, <3>1 DEF StackAfter
      <4>3. new = [stack |-> s, reads |-> acc.reads, bad |-> FALSE]
        BY <1>1, <1>3, <1>5, <4>1, <4>2
      <4>. QED BY <1>1, <4>3
    <3>2. CASE t.kind = "not"
      <4>1. new = [acc EXCEPT !.stack[n].neg = ~@]
        BY <1>1, <1>5, <3>2 DEF RpnStep, Malformed
      <4>2. s = [stack EXCEPT ![n] = Flip(stack[n])]
        BY <1>1, <2>3, <3>2 DEF StackAfter
      <4>3. new = [acc EXCEPT !.stack = [stack EXCEPT ![n] = [stack[n] EXCEPT !.neg = ~@]]]
        BY <1>1, <4>1
      <4>4. new = [acc EXCEPT !.stack = s]
        BY <4>2, <4>3 DEF Flip
      <4>5. new = [stack |-> s, reads |-> acc.reads, bad |-> FALSE]
        BY <1>1, <1>3, <1>5, <4>4
      <4>. QED BY <1>1, <4>5
    <3>3. CASE t.kind \in {"and", "or"}
      <4>1. PICK left, right, m :
              /\ left = RpnForce(d, view, r, stack[n - 1])
              /\ right = RpnForce(d, view, r, stack[n])
              /\ m = Combine(t.kind, left, right)
        OBVIOUS
      <4>2. new = Reduce(acc, m)
        BY <1>1, <1>5, <3>3, <4>1 DEF RpnStep, Malformed
      <4>3. s = Append(SubSeq(stack, 1, n - 2), Cell(0, m.ok))
        BY <1>1, <2>3, <3>3, <4>1 DEF StackAfter
      <4>4. stack[n - 1] \in C /\ stack[n] \in C
        <5>1. n - 1 \in 1 .. n /\ n \in 1 .. n
          BY <1>1, <1>5, <3>3 DEF Malformed
        <5>. QED BY <1>1, <5>1
      <4>5. m.reads \in SUBSET R
        <5>1. left.ok \in BOOLEAN /\ right.ok \in BOOLEAN
          BY <1>1, <4>1, <4>4, ForceIs
        <5>2. left.reads \in SUBSET R /\ right.reads \in SUBSET R
          BY <1>1, <4>1, <4>4, ForceIs
        <5>3. m.reads \subseteq left.reads \cup right.reads
          BY <3>3, <4>1, <5>1, CombineIs
        <5>. QED BY <5>2, <5>3
      <4>6. new = [stack |-> s, reads |-> acc.reads \cup m.reads, bad |-> FALSE]
        BY <1>1, <1>3, <1>5, <4>2, <4>3 DEF Reduce
      <4>. QED BY <1>1, <4>5, <4>6
    <3>. QED BY <3>1, <3>2, <3>3 DEF TokenTyped, Tokens
  <2>5. PICK reads \in SUBSET R : new = [stack |-> s, reads |-> reads, bad |-> FALSE]
    BY <2>4
  <2>6. /\ new \in RpnStates(d, view, r) /\ ~new.bad
        /\ new.stack = StackAfter(d, view, r, stack, t)
    <3>. HIDE DEF new
    <3>. QED BY <1>2, <2>2, <2>3, <2>5
  <2>. QED BY <1>1, <1>5, <2>6
<1>. QED BY <1>1, <1>4, <1>5

\* The depth of the stack of cells, and below zero after a malformed token.
LEMMA DepthAfterIs ==
  ASSUME NEW d, NEW r, RuleTyped(d, r), NEW t, TokenTyped(t),
         NEW toks, NEW n \in Nat, Len(toks) = n, NEW depth \in Int, NEW stack
  PROVE  /\ DepthAfter(toks, r.sels.count, depth, t) \in Int
         /\ depth < 0 => DepthAfter(toks, r.sels.count, depth, t) \in {depth + 1, -n - 1}
         /\ Len(stack) = depth =>
              DepthAfter(toks, r.sels.count, depth, t) =
                IF Malformed(stack, r, t) THEN -n - 1
                ELSE CASE t.kind = "sel" -> depth + 1
                       [] t.kind = "not" -> depth
                       [] OTHER -> depth - 1
<1>1. PICK c, m, l : c = r.sels.count /\ m = CondStackMax /\ l = n
                     /\ c \in Nat /\ m \in Nat /\ l \in Nat
  BY RouteAssumption DEF RouteAssumption, RuleTyped, Slices
<1>2. CASE t.kind = "sel"
  <2>1. t.sel \in Nat \ {0}
    BY <1>2 DEF TokenTyped
  <2>. QED BY <1>1, <1>2, <2>1 DEF DepthAfter, Malformed
<1>3. CASE t.kind = "not"
  BY <1>1, <1>3 DEF DepthAfter, Malformed
<1>4. CASE t.kind \in {"and", "or"}
  BY <1>1, <1>4 DEF DepthAfter, Malformed
<1>. QED BY <1>2, <1>3, <1>4 DEF TokenTyped, Tokens

\* The stack of booleans, well-formed or not.
LEMMA EvaluatedStays ==
  ASSUME NEW B, BOOLEAN \subseteq B, NEW b \in Seq(B), NEW t, TokenTyped(t), NEW truth,
         t.kind = "sel" => truth[t.sel] \in B
  PROVE  Evaluated(truth, b, t) \in Seq(B)
<1>1. PICK n : n = Len(b) /\ n \in Nat
  OBVIOUS
<1>2. CASE t.kind = "sel"
  <2>1. Evaluated(truth, b, t) = Append(b, truth[t.sel])
    BY <1>2 DEF Evaluated
  <2>. QED BY <1>2, <2>1, PushTop
<1>3. CASE t.kind = "not"
  <2>1. Evaluated(truth, b, t) = [b EXCEPT ![n] = ~b[n]]
    BY <1>1, <1>3 DEF Evaluated
  <2>2. PICK x \in B : x = ~b[n]
    OBVIOUS
  <2>3. CASE n = 0
    <3>0. DOMAIN b = 1 .. Len(b)
      OBVIOUS
    <3>1. DOMAIN b = 1 .. 0
      BY <1>1, <2>3, <3>0
    <3>2. [b EXCEPT ![n] = ~b[n]] = b
      BY <1>1, <2>3, <3>1
    <3>. QED BY <2>1, <3>2
  <2>4. CASE n # 0
    <3>1. n \in 1 .. Len(b)
      BY <1>1, <2>4
    <3>2. [b EXCEPT ![n] = x] \in Seq(B)
      BY <1>1, <3>1, ReplaceTop
    <3>. QED BY <2>1, <2>2, <3>2
  <2>. QED BY <2>3, <2>4
<1>4. CASE t.kind \in {"and", "or"}
  <2>1. PICK x \in B : Evaluated(truth, b, t) = Append(SubSeq(b, 1, n - 2), x)
    <3>1. CASE t.kind = "and"
      <4>1. (b[n - 1] /\ b[n]) \in BOOLEAN
        OBVIOUS
      <4>. QED BY <1>1, <3>1, <4>1 DEF Evaluated
    <3>2. CASE t.kind = "or"
      <4>1. (b[n - 1] \/ b[n]) \in BOOLEAN
        OBVIOUS
      <4>. QED BY <1>1, <3>2, <4>1 DEF Evaluated
    <3>. QED BY <1>4, <3>1, <3>2
  <2>2. SubSeq(b, 1, n - 2) \in Seq(B)
    <3>1. 1 \in Int /\ n - 2 \in Int /\ \A i \in 1 .. n - 2 : b[i] \in B
      BY <1>1
    <3>. QED BY <3>1, SubSeqProperties
  <2>3. PICK u : u = SubSeq(b, 1, n - 2) /\ u \in Seq(B)
    BY <2>2
  <2>4. Append(u, x) \in Seq(B)
    BY <2>3, PushTop
  <2>. QED BY <2>1, <2>3, <2>4
<1>. QED BY <1>2, <1>3, <1>4 DEF TokenTyped, Tokens

-----------------------------------------------------------------------------
\* The three runs of a condition side by side: after k of n tokens the stack of cells
\* stands for the stack of booleans, unless a token was malformed and the depth is
\* too far below zero to come back.
InStep(d, view, r, n, k, acc, depth, b) ==
  IF acc.bad THEN depth <= k - n - 1
  ELSE depth = Len(acc.stack) /\ Agrees(d, view, r, acc.stack, b)

LEMMA TokenInStep ==
  ASSUME NEW d, NEW view, NEW r, RuleTyped(d, r), NEW t, TokenTyped(t),
         NEW toks, NEW n \in Nat, Len(toks) = n, NEW k \in 0 .. n - 1,
         NEW acc \in RpnStates(d, view, r), NEW depth \in Int,
         NEW B, NEW b \in Seq(B), BOOLEAN \subseteq B,
         InStep(d, view, r, n, k, acc, depth, b)
  PROVE  InStep(d, view, r, n, k + 1, RpnStep(d, view, r, acc, t),
                DepthAfter(toks, r.sels.count, depth, t),
                Evaluated(TruthOfSels(d, view, r), b, t))
<1>. DEFINE new == RpnStep(d, view, r, acc, t)
            val == Evaluated(TruthOfSels(d, view, r), b, t)
            dep == DepthAfter(toks, r.sels.count, depth, t)
<1>1. /\ acc.bad \/ Malformed(acc.stack, r, t) => new.bad
      /\ ~acc.bad /\ ~Malformed(acc.stack, r, t) =>
           ~new.bad /\ new.stack = StackAfter(d, view, r, acc.stack, t)
  BY RpnStepIs
<1>2. PICK stack : stack = acc.stack /\ stack \in Seq(CellsOf(r)) /\ Len(stack) \in Nat
  BY DEF RpnStates
<1>3. /\ dep \in Int
      /\ depth < 0 => dep \in {depth + 1, -n - 1}
      /\ Len(stack) = depth =>
           dep = IF Malformed(stack, r, t) THEN -n - 1
                 ELSE CASE t.kind = "sel" -> depth + 1
                        [] t.kind = "not" -> depth
                        [] OTHER -> depth - 1
  <2>. HIDE DEF new, val
  <2>. QED BY DepthAfterIs
<1>. HIDE DEF new, val, dep
<1>4. CASE acc.bad
  <2>1. depth <= k - n - 1 /\ depth < 0
    BY <1>4 DEF InStep
  <2>2. dep <= k + 1 - n - 1
    BY <1>3, <2>1
  <2>. QED BY <1>1, <1>4, <2>2 DEF InStep, new, val, dep
<1>5. CASE ~acc.bad /\ Malformed(stack, r, t)
  <2>1. depth = Len(stack)
    BY <1>2, <1>5 DEF InStep
  <2>2. dep <= k + 1 - n - 1
    BY <1>3, <1>5, <2>1
  <2>. QED BY <1>1, <1>2, <1>5, <2>2 DEF InStep, new, val, dep
<1>6. CASE ~acc.bad /\ ~Malformed(stack, r, t)
  <2>1. depth = Len(stack) /\ Agrees(d, view, r, stack, b)
    BY <1>2, <1>6 DEF InStep
  <2>2. PICK u : u = stack
    OBVIOUS
  <2>3. u \in Seq(CellsOf(r)) /\ ~Malformed(u, r, t) /\ Agrees(d, view, r, u, b)
    BY <1>2, <1>6, <2>1, <2>2
  <2>4. /\ Agrees(d, view, r, StackAfter(d, view, r, u, t), val)
        /\ Len(StackAfter(d, view, r, u, t)) =
             CASE t.kind = "sel" -> Len(u) + 1
               [] t.kind = "not" -> Len(u)
               [] OTHER -> Len(u) - 1
    BY <2>3, TokenAgrees DEF val
  <2>5. ~new.bad /\ new.stack = StackAfter(d, view, r, u, t)
    BY <1>1, <1>2, <1>6, <2>2
  <2>6. dep = Len(new.stack)
    BY <1>3, <1>6, <2>1, <2>2, <2>4, <2>5
  <2>. QED BY <2>4, <2>5, <2>6 DEF InStep, new, val, dep
<1>. QED BY <1>2, <1>4, <1>5, <1>6

\* The lazy evaluation of a condition, short-circuits and malformed conditions
\* included, gives what the condition says over the truth of all selections.
LEMMA CondIsMeant ==
  ASSUME NEW d, NEW view, NEW r, RuleTyped(d, r)
  PROVE  /\ RunCond(d, view, r).ok \in BOOLEAN
         /\ RunCond(d, view, r).ok <=>
              /\ WellFormed(Slice(d.cond, r.cond), r.sels.count)
              /\ CondHolds(Slice(d.cond, r.cond), TruthOfSels(d, view, r))
<1>1. PICK toks, n, T : toks = Slice(d.cond, r.cond) /\ n = r.cond.count /\ n \in Nat
                        /\ T = TruthOfSels(d, view, r)
  BY DEF RuleTyped, Slices
<1>2. DOMAIN toks = 1 .. n /\ Len(toks) = n /\ \A i \in 1 .. n : TokenTyped(toks[i])
  <2>1. PICK K : K = ToSet(d.cond)
    OBVIOUS
  <2>2. d.cond \in Seq(K) /\ r.cond \in Slices /\ Within(d.cond, r.cond)
    BY <2>1 DEF RuleTyped
  <2>3. PICK table, s : table = d.cond /\ s = r.cond
    OBVIOUS
  <2>4. /\ DOMAIN Slice(table, s) = 1 .. s.count /\ Len(Slice(table, s)) = s.count
        /\ \A i \in 1 .. s.count : /\ s.start + i - 1 \in DOMAIN table
                                   /\ Slice(table, s)[i] = table[s.start + i - 1]
    <3>1. table \in Seq(K) /\ s \in Slices /\ Within(table, s)
      BY <2>2, <2>3
    <3>. QED BY <3>1, SliceEntries
  <2>5. \A i \in DOMAIN table : TokenTyped(table[i])
    BY <2>3 DEF RuleTyped, TokenTyped
  <2>. QED BY <1>1, <2>3, <2>4, <2>5
<1>. DEFINE P == RpnStates(d, view, r)
            B == BOOLEAN \cup {T[toks[i].sel] : i \in 1 .. n}
            sels == r.sels.count
<1>3. PICK h \in [0 .. n -> P] :
        /\ h[0] = RpnStart
        /\ \A i \in 1 .. n : h[i] = RpnStep(d, view, r, h[i - 1], toks[i])
        /\ RpnRun(d, view, r) = h[n]
  <2>1. RpnStart \in P
    BY DEF RpnStart, RpnStates
  <2>2. \A x \in P, i \in 1 .. n : RpnStep(d, view, r, x, toks[i]) \in P
    BY <1>2, RpnStepIs
  <2>3. RpnStaysIn(P, n, d, view, r)
    BY <1>1, <2>2 DEF RpnStaysIn
  <2>. HIDE DEF P
  <2>4. RpnRuns(P, n, d, view, r)
    BY <1>1, <1>2, <2>1, <2>3, RpnTrace
  <2>. QED BY <1>1, <2>4 DEF RpnRuns
<1>4. PICK e \in [0 .. n -> Int] :
        /\ e[0] = 0
        /\ \A i \in 1 .. n : e[i] = DepthAfter(toks, sels, e[i - 1], toks[i])
        /\ DepthOf(toks, sels) = e[n]
  <2>2. \A x \in Int, i \in 1 .. n : DepthAfter(toks, sels, x, toks[i]) \in Int
    BY <1>1, <1>2, DepthAfterIs
  <2>3. PICK Z : Z = Int
    OBVIOUS
  <2>4. DepthStaysIn(Z, n, toks, sels) /\ 0 \in Z
    BY <2>2, <2>3 DEF DepthStaysIn
  <2>5. DepthRuns(Z, n, toks, sels)
    BY <1>1, <1>2, <2>4, DepthTrace
  <2>. QED BY <2>3, <2>5 DEF DepthRuns
<1>5. PICK b \in [0 .. n -> Seq(B)] :
        /\ b[0] = <<>>
        /\ \A i \in 1 .. n : b[i] = Evaluated(T, b[i - 1], toks[i])
        /\ TruthOf(toks, T) = b[n]
  <2>1. BOOLEAN \subseteq B /\ \A i \in 1 .. n : T[toks[i].sel] \in B
    OBVIOUS
  <2>. HIDE DEF B
  <2>2. PICK Z : Z = Seq(B)
    OBVIOUS
  <2>3. \A x \in Z, i \in 1 .. n : Evaluated(T, x, toks[i]) \in Z
    BY <1>2, <2>1, <2>2, EvaluatedStays
  <2>4. TruthStaysIn(Z, n, toks, T) /\ <<>> \in Z
    BY <2>2, <2>3 DEF TruthStaysIn
  <2>5. TruthRuns(Z, n, toks, T)
    BY <1>1, <1>2, <2>4, TruthTrace
  <2>. QED BY <2>2, <2>5 DEF TruthRuns
<1>6. BOOLEAN \subseteq B
  OBVIOUS
<1>. HIDE DEF P, B
<1>. DEFINE Q == {k \in Nat : k <= n => InStep(d, view, r, n, k, h[k], e[k], b[k])}
<1>7. 0 \in Q
  <2>1. h[0].stack = <<>> /\ ~h[0].bad
    BY <1>3 DEF RpnStart
  <2>2. Len(<<>>) = 0 /\ e[0] = 0 /\ b[0] = <<>>
    BY <1>4, <1>5
  <2>3. Agrees(d, view, r, h[0].stack, b[0])
    BY <2>1, <2>2 DEF Agrees
  <2>. QED BY <2>1, <2>2, <2>3 DEF InStep
<1>8. ASSUME NEW k \in Nat, k \in Q PROVE k + 1 \in Q
  <2>1. SUFFICES ASSUME k + 1 <= n
                 PROVE  InStep(d, view, r, n, k + 1, h[k + 1], e[k + 1], b[k + 1])
    OBVIOUS
  <2>2. k + 1 \in 1 .. n /\ k \in 0 .. n - 1 /\ k \in 0 .. n /\ (k + 1) - 1 = k /\ k <= n
    BY <1>1, <2>1
  <2>3. PICK acc, depth, c, t : acc = h[k] /\ depth = e[k] /\ c = b[k] /\ t = toks[k + 1]
    OBVIOUS
  <2>4. acc \in P /\ depth \in Int /\ c \in Seq(B) /\ TokenTyped(t)
    BY <1>2, <1>3, <1>4, <1>5, <2>2, <2>3
  <2>5. InStep(d, view, r, n, k, acc, depth, c)
    BY <1>8, <2>2, <2>3
  <2>6. InStep(d, view, r, n, k + 1, RpnStep(d, view, r, acc, t),
               DepthAfter(toks, r.sels.count, depth, t),
               Evaluated(TruthOfSels(d, view, r), c, t))
    BY <1>1, <1>2, <1>6, <2>2, <2>4, <2>5, TokenInStep DEF P
  <2>7. /\ h[k + 1] = RpnStep(d, view, r, acc, t)
        /\ e[k + 1] = DepthAfter(toks, r.sels.count, depth, t)
        /\ b[k + 1] = Evaluated(TruthOfSels(d, view, r), c, t)
    BY <1>1, <1>3, <1>4, <1>5, <2>2, <2>3
  <2>. QED BY <2>6, <2>7
<1>9. n \in Q
  <2>1. \A k \in Nat : k \in Q => k + 1 \in Q
    BY <1>8
  <2>. HIDE DEF Q
  <2>. QED BY <1>1, <1>7, <2>1, SetInduction
<1>10. PICK end, depth, c : end = h[n] /\ depth = e[n] /\ c = b[n]
  OBVIOUS
<1>11. /\ InStep(d, view, r, n, n, end, depth, c)
       /\ end \in P /\ depth \in Int /\ c \in Seq(B)
  BY <1>1, <1>3, <1>4, <1>5, <1>9, <1>10
<1>12. RunCond(d, view, r) = RpnEnd(d, view, r, end)
  BY <1>3, <1>10 DEF RunCond, RpnRun, RpnStart, FoldLeft, MapThenFoldSet
<1>13. WellFormed(toks, sels) <=> depth = 1
  BY <1>4, <1>10 DEF WellFormed, DepthOf, FoldLeft, MapThenFoldSet
<1>14. CondHolds(toks, T) <=> c = <<TRUE>>
  BY <1>5, <1>10 DEF CondHolds, TruthOf, FoldLeft, MapThenFoldSet
<1>15. CASE end.bad \/ Len(end.stack) # 1
  <2>1. ~RpnEnd(d, view, r, end).ok /\ RpnEnd(d, view, r, end).ok \in BOOLEAN
    BY <1>15 DEF RpnEnd
  <2>2. depth # 1
    <3>1. n - n - 1 < 1
      BY <1>1
    <3>2. end.bad => depth <= n - n - 1
      BY <1>11 DEF InStep
    <3>3. ~end.bad => depth = Len(end.stack)
      BY <1>11 DEF InStep
    <3>4. depth <= n - n - 1 => depth # 1
      BY <1>1, <1>11
    <3>. QED BY <1>15, <3>2, <3>3, <3>4
  <2>. QED BY <1>1, <1>12, <1>13, <2>1, <2>2
<1>16. CASE ~(end.bad \/ Len(end.stack) # 1)
  <2>1. depth = 1 /\ Agrees(d, view, r, end.stack, c) /\ Len(end.stack) = 1
    BY <1>11, <1>16 DEF InStep
  <2>2. /\ Len(c) = 1 /\ c[1] \in BOOLEAN
        /\ c[1] <=> RpnForce(d, view, r, end.stack[1]).ok
    BY <2>1 DEF Agrees
  <2>3. c = <<TRUE>> <=> c[1]
    <3>1. c = <<TRUE>> => c[1]
      OBVIOUS
    <3>2. ASSUME c[1] PROVE c = <<TRUE>>
      <4>1. PICK y : y = c[1]
        OBVIOUS
      <4>2. y = TRUE
        BY <2>2, <3>2, <4>1
      <4>3. c = <<y>>
        BY <1>11, <2>2, <4>1
      <4>. QED BY <4>2, <4>3
    <3>. QED BY <3>1, <3>2
  <2>4. end.stack[1] \in CellsOf(r)
    BY <1>11, <2>1 DEF P, RpnStates
  <2>5. RpnForce(d, view, r, end.stack[1]).ok \in BOOLEAN
    BY <2>4, ForceIs
  <2>6. RpnEnd(d, view, r, end).ok = RpnForce(d, view, r, end.stack[1]).ok
    BY <1>16 DEF RpnEnd, After
  <2>. QED BY <1>1, <1>12, <1>13, <1>14, <2>1, <2>2, <2>3, <2>5, <2>6
<1>. QED BY <1>15, <1>16

\* rule_match on an event: the lazy verdict is the rule's meaning.
LEMMA RuleIsMeant ==
  ASSUME NEW d, NEW ev, NEW i, RuleTyped(d, d.rules[i])
  PROVE  RuleMatch(d, FieldsOf(d, ev), d.rules[i]).ok <=> Matches(d, ev, i)
<1>1. PICK r, view, T, n : r = d.rules[i] /\ view = FieldsOf(d, ev)
                           /\ T = TruthOfSels(d, view, r) /\ n = r.sels.count /\ n \in Nat
  BY DEF RuleTyped, Slices
<1>2. RuleTyped(d, r)
  BY <1>1
<1>3. T = [k \in 1 .. d.rules[i].sels.count |->
             SelHolds(d, FieldsOf(d, ev), d.sels[d.rules[i].sels.start + k - 1])]
  BY <1>1 DEF TruthOfSels
<1>4. DOMAIN T = 1 .. n
  BY <1>1, <1>3
<1>5. CASE r.cond.count = 0
  <2>1. Matches(d, ev, i) <=> T # <<>> /\ \A k \in DOMAIN T : T[k]
    BY <1>1, <1>3, <1>5 DEF Matches
  <2>2. T # <<>> <=> n # 0
    <3>1. n = 0 => T = <<>>
      BY <1>1, <1>3
    <3>2. DOMAIN <<>> = 1 .. 0
      OBVIOUS
    <3>. QED BY <1>1, <1>4, <3>1, <3>2
  <2>3. RunAll(d, view, r).ok <=> n # 0 /\ \A k \in 1 .. n : T[k]
    BY <1>1, <1>2, AllIsMeant
  <2>. QED BY <1>1, <1>4, <1>5, <2>1, <2>2, <2>3 DEF RuleMatch
<1>6. CASE r.cond.count # 0
  <2>1. Matches(d, ev, i) <=> /\ WellFormed(Slice(d.cond, r.cond), n)
                              /\ CondHolds(Slice(d.cond, r.cond), T)
    BY <1>1, <1>3, <1>6 DEF Matches
  <2>2. RunCond(d, view, r).ok <=> /\ WellFormed(Slice(d.cond, r.cond), n)
                                   /\ CondHolds(Slice(d.cond, r.cond), T)
    BY <1>1, <1>2, CondIsMeant
  <2>. QED BY <1>1, <1>6, <2>1, <2>2 DEF RuleMatch
<1>. QED BY <1>5, <1>6

-----------------------------------------------------------------------------
(***************************************************************************)
(* The rules an event concerns.                                            *)
(***************************************************************************)

\* The rules of a database the compiler has grouped are as RuleIsMeant asks.
LEMMA DbRules ==
  ASSUME NEW d \in Dbs, Grouped(d), NEW i \in DOMAIN d.rules
  PROVE  RuleTyped(d, d.rules[i])
<1>1. PICK a : ArtifactTypes(a) /\ LoadResult(a) = "ok" /\ d = Loaded(a)
  BY DbOfArtifact
<1>2. /\ d.sels = a.sels /\ d.preds = a.preds /\ d.cond = a.cond /\ d.rules = a.rules
  BY <1>1 DEF Loaded
<1>3. RulesOk(a)
  BY <1>1, LoadChecks
<1>4. PICK r : r = d.rules[i]
  OBVIOUS
<1>5. /\ r.sels \in Slices /\ r.cond \in Slices /\ d.sels \in Seq(Slices)
      /\ \A j \in DOMAIN d.preds : d.preds[j].group \in Nat \ {0}
      /\ \A j \in DOMAIN d.cond : d.cond[j].kind = "sel" => d.cond[j].sel \in Nat \ {0}
  BY <1>1, <1>2, <1>4 DEF ArtifactTypes
<1>6. /\ Within(d.sels, r.sels) /\ Within(d.cond, r.cond)
      /\ \A j \in DOMAIN d.sels : Within(d.preds, d.sels[j])
      /\ \A j \in DOMAIN d.cond : d.cond[j].kind \in Tokens
  BY <1>2, <1>3, <1>4 DEF RulesOk, Tokens
<1>7. /\ a["cond"] \in Seq(ToSet(a["cond"])) /\ a["preds"] \in Seq(ToSet(a["preds"]))
  BY <1>1 DEF ArtifactTypes
<1>8. d.cond \in Seq(ToSet(d.cond)) /\ DOMAIN d.preds = 1 .. Len(d.preds)
      /\ Len(d.preds) \in Nat
  <2>1. PICK K, L, preds, cond : /\ K = ToSet(a["cond"]) /\ L = ToSet(a["preds"])
                                 /\ preds = a.preds /\ cond = a.cond
    OBVIOUS
  <2>2. preds \in Seq(L) /\ cond \in Seq(K) /\ K = ToSet(d.cond)
    BY <1>2, <1>7, <2>1
  <2>3. DOMAIN preds = 1 .. Len(preds) /\ Len(preds) \in Nat
    BY <2>2
  <2>. QED BY <1>2, <2>1, <2>2, <2>3
<1>9. ASSUME NEW j \in DOMAIN d.sels
      PROVE  GroupedIn(d, d.sels[j])
  <2>1. PICK s : s = d.sels[j] /\ s \in Slices /\ Within(d.preds, s)
    BY <1>5, <1>6
  <2>2. \A k \in Ids(s) : k \in DOMAIN d.preds
    <3>1. PICK m, n, l : m = s.start /\ n = s.count /\ l = Len(d.preds) /\ m \in Nat
                         /\ n \in Nat /\ l \in Nat /\ m >= 1 /\ m + n - 1 <= l
      BY <1>8, <2>1 DEF Slices, Within
    <3>2. \A k \in m .. m + n - 1 : k \in 1 .. l
      BY <3>1
    <3>. QED BY <1>8, <3>1, <3>2 DEF Ids
  <2>3. \A k \in Ids(s) : d.preds[k].group \in Nat \ {0}
    BY <1>5, <2>2
  <2>4. \A e, f, g \in Ids(s) :
          e < f /\ f < g /\ d.preds[e].group = d.preds[g].group =>
            d.preds[e].group = d.preds[f].group
    BY <2>1 DEF Grouped, Ids
  <2>. QED BY <2>1, <2>3, <2>4 DEF GroupedIn
<1>10. \A k \in 1 .. r.sels.count : r.sels.start + k - 1 \in DOMAIN d.sels
  <2>1. PICK table, s : table = d.sels /\ s = r.sels
    OBVIOUS
  <2>2. table \in Seq(Slices) /\ s \in Slices /\ Within(table, s)
    BY <1>5, <1>6, <2>1
  <2>3. \A k \in 1 .. s.count : s.start + k - 1 \in DOMAIN table
    BY <2>2, SliceEntries
  <2>. QED BY <2>1, <2>3
<1>11. \A k \in 1 .. r.sels.count : GroupedIn(d, d.sels[r.sels.start + k - 1])
  BY <1>9, <1>10
<1>12. \A j \in DOMAIN d.cond : /\ d.cond[j].kind \in Tokens
                                /\ d.cond[j].kind = "sel" => d.cond[j].sel \in Nat \ {0}
  BY <1>5, <1>6
<1>. QED BY <1>4, <1>5, <1>6, <1>8, <1>11, <1>12 DEF RuleTyped

\* For every database the loader accepts whose selections are grouped, rule_match gives
\* on every event the meaning of the rule: selections left early, conditions evaluated
\* lazily and cut short, stacks that overflow or underflow included.
THEOREM VerdictIsMeaning ==
  ASSUME NEW d \in Dbs, Grouped(d), NEW ev, NEW i \in DOMAIN d.rules
  PROVE  RuleMatch(d, FieldsOf(d, ev), d.rules[i]).ok <=> Matches(d, ev, i)
<1>1. RuleTyped(d, d.rules[i])
  BY DbRules
<1>. QED BY <1>1, RuleIsMeant

\* bucket_lookup and the search for a field: the first position of a word in a table.
LEMMA IndexIs ==
  ASSUME NEW T, NEW table \in Seq(T), NEW w
  PROVE  /\ (\E i \in DOMAIN table : table[i] = w) =>
              IndexIn(table, w) \in DOMAIN table /\ table[IndexIn(table, w)] = w
         /\ ~(\E i \in DOMAIN table : table[i] = w) => IndexIn(table, w) = 0
<1>1. ASSUME \E i \in DOMAIN table : table[i] = w
      PROVE  IndexIn(table, w) \in DOMAIN table /\ table[IndexIn(table, w)] = w
  <2>. DEFINE S == {i \in Nat : i \in DOMAIN table /\ table[i] = w}
  <2>1. S \in SUBSET Nat /\ S # {}
    BY <1>1
  <2>2. PICK n \in S : \A m \in S : n <= m
    <3>. HIDE DEF S
    <3>. QED BY <2>1, Least
  <2>3. \A j \in 1 .. n - 1 : j \in Nat /\ j \in DOMAIN table /\ ~(n <= j)
    OBVIOUS
  <2>4. \A j \in 1 .. n - 1 : table[j] # w
    BY <2>2, <2>3
  <2>5. n \in DOMAIN table /\ table[n] = w
    OBVIOUS
  <2>6. IndexIn(table, w) =
          CHOOSE i \in DOMAIN table : table[i] = w /\ \A j \in 1 .. i - 1 : table[j] # w
    BY <1>1 DEF IndexIn
  <2>. HIDE DEF S
  <2>. QED BY <2>4, <2>5, <2>6
<1>2. ~(\E i \in DOMAIN table : table[i] = w) => IndexIn(table, w) = 0
  BY DEF IndexIn
<1>. QED BY <1>1, <1>2

\* The tables an event is routed by.
LEMMA RouteTables ==
  ASSUME NEW d \in Dbs
  PROVE  /\ d.keys \in Seq(ToSet(d.keys))
         /\ d.fields \in Seq(ToSet(d.fields))
         /\ d.avBucket = IndexIn(d.keys, <<>>)
         /\ d.catField # NoField =>
              d.catField \in DOMAIN d.fields /\ d.fields[d.catField] = "event.category"
<1>1. PICK a : ArtifactTypes(a) /\ LoadResult(a) = "ok" /\ d = Loaded(a)
  BY DbOfArtifact
<1>2. /\ d.keys = a.keys /\ d.fields = a.fields /\ d.avBucket = IndexIn(a.keys, <<>>)
      /\ d.catField = IF a.keys = <<>> THEN NoField ELSE IndexIn(a.fields, "event.category")
  BY <1>1 DEF Loaded
<1>3. PICK K, F, keys, fields : /\ K = ToSet(a.keys) /\ F = ToSet(a.fields)
                                /\ keys = a.keys /\ fields = a.fields
  OBVIOUS
<1>4. keys \in Seq(K) /\ a["fields"] \in Seq(ToSet(a["fields"]))
  BY <1>1, <1>3 DEF ArtifactTypes
<1>5. fields \in Seq(F)
  BY <1>3, <1>4
<1>6. d.catField # NoField => d.catField = IndexIn(fields, "event.category")
  BY <1>2, <1>3
<1>7. IndexIn(fields, "event.category") # 0 =>
        /\ IndexIn(fields, "event.category") \in DOMAIN fields
        /\ fields[IndexIn(fields, "event.category")] = "event.category"
  BY <1>5, IndexIs
<1>. QED BY <1>2, <1>3, <1>4, <1>5, <1>6, <1>7 DEF NoField

\* The values an event is routed by: also the category, though it comes from the memo.
LEMMA RouteTokenIs ==
  ASSUME db \in Dbs, NEW ev, NEW view, view = FieldsOf(db, ev)
  PROVE  /\ \A i \in DOMAIN RouteNames : RouteToken(view, ev, i) = Value(ev, RouteNames[i])
         /\ Routed(view, ev) <=> RouteTokens(ev) # {}
         /\ \A w : w \in RouteTokens(ev) <=>
              w \notin {NoVal, <<>>} /\ \E i \in DOMAIN RouteNames : RouteToken(view, ev, i) = w
<1>1. RouteNames[1] = "event.category"
  BY DEF RouteNames
<1>2. db.catField # NoField => view[db.catField] = Value(ev, "event.category")
  BY RouteTables DEF FieldsOf
<1>3. \A i \in DOMAIN RouteNames : RouteToken(view, ev, i) = Value(ev, RouteNames[i])
  BY <1>1, <1>2 DEF RouteToken
<1>4. \A w : w \in RouteTokens(ev) <=>
        w \notin {NoVal, <<>>} /\ \E i \in DOMAIN RouteNames : Value(ev, RouteNames[i]) = w
  BY DEF RouteTokens, ToSet
<1>5. \A w : w \in RouteTokens(ev) <=>
        w \notin {NoVal, <<>>} /\ \E i \in DOMAIN RouteNames : RouteToken(view, ev, i) = w
  BY <1>3, <1>4
<1>6. Routed(view, ev) <=> RouteTokens(ev) # {}
  BY <1>5 DEF Routed
<1>. QED BY <1>3, <1>5, <1>6

\* The buckets of the first i tokens: those whose key is one of them.
KeyedBy(d, view, ev, i) ==
  {b \in DOMAIN d.keys :
     \E j \in 1 .. i : RouteToken(view, ev, j) \notin {NoVal, <<>>}
                       /\ d.keys[b] = RouteToken(view, ev, j)}

\* Where there is room, AddBucket adds the bucket of a key, if there is one.
LEMMA AddsKey ==
  ASSUME db \in Dbs, DistinctKeys(db), NEW B, B = DOMAIN db.keys,
         NEW sel \in Seq(B), Len(sel) < MaxRoute, NEW w
  PROVE  /\ AddBucket(sel, IndexIn(db.keys, w)) \in Seq(B)
         /\ Len(AddBucket(sel, IndexIn(db.keys, w))) <= Len(sel) + 1
         /\ ToSet(AddBucket(sel, IndexIn(db.keys, w)))
              = ToSet(sel) \cup {b \in B : db.keys[b] = w}
<1>1. PICK K, keys : K = ToSet(db.keys) /\ keys = db.keys
  OBVIOUS
<1>2. keys \in Seq(K)
  BY <1>1, RouteTables
<1>3. PICK n : n = IndexIn(keys, w)
  OBVIOUS
<1>4. /\ (\E i \in DOMAIN keys : keys[i] = w) => n \in DOMAIN keys /\ keys[n] = w
      /\ ~(\E i \in DOMAIN keys : keys[i] = w) => n = 0
  BY <1>2, <1>3, IndexIs
<1>5. ~(0 \in DOMAIN keys)
  BY <1>2
<1>6. MaxRoute \in Nat
  BY RouteAssumption DEF RouteAssumption
<1>7. CASE n = 0
  <2>1. {b \in B : db.keys[b] = w} = {}
    BY <1>1, <1>4, <1>5, <1>7
  <2>2. AddBucket(sel, n) = sel
    BY <1>7 DEF AddBucket, NoBucket
  <2>3. Len(sel) <= Len(sel) + 1
    OBVIOUS
  <2>. QED BY <1>1, <1>3, <2>1, <2>2, <2>3
<1>8. CASE n # 0
  <2>1. n \in B /\ keys[n] = w
    BY <1>1, <1>4, <1>8
  <2>2. {b \in B : db.keys[b] = w} = {n}
    BY <1>1, <2>1 DEF DistinctKeys
  <2>3. CASE n \in ToSet(sel)
    <3>1. AddBucket(sel, n) = sel
      BY <2>3 DEF AddBucket
    <3>2. Len(sel) <= Len(sel) + 1
      OBVIOUS
    <3>. QED BY <1>1, <1>3, <2>2, <2>3, <3>1, <3>2
  <2>4. CASE n \notin ToSet(sel)
    <3>0. ~(Len(sel) >= MaxRoute)
      BY <1>6
    <3>1. AddBucket(sel, n) = Append(sel, n)
      BY <1>8, <2>4, <3>0 DEF AddBucket, NoBucket
    <3>2. Append(sel, n) \in Seq(B) /\ ToSet(Append(sel, n)) = ToSet(sel) \cup {n}
      BY <2>1, AppendSet
    <3>3. Len(Append(sel, n)) <= Len(sel) + 1
      BY <2>1
    <3>. QED BY <1>1, <1>3, <2>2, <3>1, <3>2, <3>3
  <2>. QED BY <2>3, <2>4
<1>. QED BY <1>7, <1>8

\* sigma_eval_run selects the buckets of an event's tokens and the always-verify one,
\* and the array of buckets has room for them all.
LEMMA SelectsKeyed ==
  ASSUME db \in Dbs, DistinctKeys(db), NEW ev, NEW view, view = FieldsOf(db, ev)
  PROVE  ToSet(SelectBuckets(view, ev)) =
           {b \in DOMAIN db.keys : db.keys[b] \in RouteTokens(ev) \cup {<<>>}}
<1>1. PICK B : B = DOMAIN db.keys
  OBVIOUS
<1>2. PICK n \in Nat : n = Len(RouteNames) /\ DOMAIN RouteNames = 1 .. n /\ n < MaxRoute
  <2>1. DOMAIN RouteNames = 1 .. 9 /\ Len(RouteNames) = 9
    BY DEF RouteNames
  <2>. QED BY <2>1, RouteAssumption DEF RouteAssumption
<1>3. MaxRoute \in Nat
  BY RouteAssumption DEF RouteAssumption
<1>4. \A w : IndexIn(db.keys, w) \in B \cup {NoBucket}
  BY <1>1 DEF IndexIn, NoBucket
<1>5. PICK h \in [0 .. n -> Seq(B)] :
        /\ h[0] = <<>>
        /\ \A i \in 1 .. n : h[i] = AddRoute(view, ev, h[i - 1], i)
        /\ TokenBuckets(view, ev) = h[n]
  <2>1. PICK Z : Z = Seq(B)
    OBVIOUS
  <2>2. ASSUME NEW sel \in Z, NEW i PROVE AddRoute(view, ev, sel, i) \in Z
    BY <1>4, <2>1, AddsBucket DEF AddRoute
  <2>3. RoutesStayIn(Z, view, ev, n) /\ <<>> \in Z
    BY <2>1, <2>2 DEF RoutesStayIn
  <2>4. \E h \in [0 .. n -> Z] :
          /\ h[0] = <<>>
          /\ \A i \in 1 .. n : h[i] = AddRoute(view, ev, h[i - 1], i)
          /\ TokenBuckets(view, ev) = h[n]
    BY <1>2, <2>3, RoutesTrace
  <2>. QED BY <2>1, <2>4
<1>. DEFINE Q == {i \in Nat : i <= n => /\ Len(h[i]) <= i
                                        /\ ToSet(h[i]) = KeyedBy(db, view, ev, i)}
<1>6. 0 \in Q
  <2>1. KeyedBy(db, view, ev, 0) = {}
    BY DEF KeyedBy
  <2>2. PICK none : none = <<>>
    OBVIOUS
  <2>3. ToSet(none) = {} /\ Len(none) = 0
    BY <2>2 DEF ToSet
  <2>4. Len(none) <= 0 /\ ToSet(none) = KeyedBy(db, view, ev, 0)
    BY <2>1, <2>3
  <2>5. h[0] = none
    BY <1>5, <2>2
  <2>6. Len(h[0]) <= 0 /\ ToSet(h[0]) = KeyedBy(db, view, ev, 0)
    BY <2>4, <2>5
  <2>. QED BY <2>6
<1>7. ASSUME NEW i \in Nat, i \in Q PROVE i + 1 \in Q
  <2>1. SUFFICES ASSUME i + 1 <= n
                 PROVE  /\ Len(h[i + 1]) <= i + 1
                        /\ ToSet(h[i + 1]) = KeyedBy(db, view, ev, i + 1)
    OBVIOUS
  <2>2. PICK j, sel : /\ j = i + 1 /\ sel = h[i] /\ sel \in Seq(B)
                      /\ j \in 1 .. n /\ h[j] = AddRoute(view, ev, sel, j)
                      /\ i <= n
    <3>1. i + 1 \in 1 .. n /\ (i + 1) - 1 = i /\ i \in 0 .. n /\ i <= n
      BY <1>2, <2>1
    <3>. QED BY <1>5, <3>1
  <2>3. Len(sel) <= i /\ ToSet(sel) = KeyedBy(db, view, ev, i)
    BY <1>7, <2>2
  <2>4. Len(sel) \in Nat /\ Len(sel) < MaxRoute /\ Len(sel) + 1 <= i + 1
    BY <1>2, <1>3, <2>1, <2>2, <2>3
  <2>5. \A k : k \in 1 .. i + 1 <=> k \in 1 .. i \/ k = j
    BY <2>2
  <2>6. CASE RouteToken(view, ev, j) \in {NoVal, <<>>}
    <3>1. h[j] = sel
      BY <2>2, <2>6 DEF AddRoute
    <3>2. KeyedBy(db, view, ev, i + 1) = KeyedBy(db, view, ev, i)
      BY <2>5, <2>6 DEF KeyedBy
    <3>. QED BY <2>2, <2>3, <2>4, <3>1, <3>2
  <2>7. CASE RouteToken(view, ev, j) \notin {NoVal, <<>>}
    <3>1. PICK w : w = RouteToken(view, ev, j)
      OBVIOUS
    <3>2. h[j] = AddBucket(sel, IndexIn(db.keys, w))
      BY <2>2, <2>7, <3>1 DEF AddRoute
    <3>3. /\ Len(AddBucket(sel, IndexIn(db.keys, w))) <= Len(sel) + 1
          /\ AddBucket(sel, IndexIn(db.keys, w)) \in Seq(B)
          /\ ToSet(AddBucket(sel, IndexIn(db.keys, w)))
               = ToSet(sel) \cup {b \in B : db.keys[b] = w}
      BY <1>1, <2>2, <2>4, AddsKey
    <3>4. KeyedBy(db, view, ev, i + 1)
            = KeyedBy(db, view, ev, i) \cup {b \in B : db.keys[b] = w}
      BY <1>1, <2>5, <2>7, <3>1 DEF KeyedBy
    <3>5. Len(h[j]) \in Nat /\ Len(h[j]) <= Len(sel) + 1
      BY <3>2, <3>3
    <3>6. Len(h[j]) <= i + 1
      BY <2>4, <3>5
    <3>. QED BY <2>2, <2>3, <3>2, <3>3, <3>4, <3>6
  <2>. QED BY <2>6, <2>7
<1>8. n \in Q
  <2>1. \A i \in Nat : i \in Q => i + 1 \in Q
    BY <1>7
  <2>. HIDE DEF Q
  <2>. QED BY <1>6, <2>1, SetInduction
<1>9. PICK l : l = h[n] /\ l \in Seq(B)
  BY <1>5
<1>10. Len(l) < MaxRoute /\ ToSet(l) = KeyedBy(db, view, ev, n)
  <2>1. Len(l) <= n /\ ToSet(l) = KeyedBy(db, view, ev, n)
    BY <1>8, <1>9
  <2>2. Len(l) \in Nat
    BY <1>9
  <2>. QED BY <1>2, <1>3, <2>1, <2>2
<1>11. SelectBuckets(view, ev) = AddBucket(l, IndexIn(db.keys, <<>>))
  <2>1. SelectBuckets(view, ev) = AddBucket(l, db.avBucket)
    BY <1>5, <1>9 DEF SelectBuckets, TokenBuckets
  <2>. QED BY <2>1, RouteTables
<1>12. ToSet(SelectBuckets(view, ev)) = ToSet(l) \cup {b \in B : db.keys[b] = <<>>}
  BY <1>1, <1>9, <1>10, <1>11, AddsKey
<1>13. \A b \in B : b \in KeyedBy(db, view, ev, n) <=> db.keys[b] \in RouteTokens(ev)
  <2>1. \A w : w \in RouteTokens(ev) <=>
          w \notin {NoVal, <<>>} /\ \E i \in 1 .. n : RouteToken(view, ev, i) = w
    <3>1. PICK D : D = DOMAIN RouteNames
      OBVIOUS
    <3>2. \A w : w \in RouteTokens(ev) <=>
            w \notin {NoVal, <<>>} /\ \E i \in D : RouteToken(view, ev, i) = w
      BY <3>1, RouteTokenIs
    <3>3. D = 1 .. n
      BY <1>2, <3>1
    <3>. QED BY <3>2, <3>3
  <2>. QED BY <1>1, <2>1 DEF KeyedBy
<1>14. KeyedBy(db, view, ev, n) \subseteq B
  BY <1>1 DEF KeyedBy
<1>. QED BY <1>1, <1>10, <1>12, <1>13, <1>14

\* The rules of the buckets selected are those the event concerns.
LEMMA BucketsAreScope ==
  ASSUME db \in Dbs, DistinctKeys(db), NEW ev, NEW view, view = FieldsOf(db, ev),
         db.keys # <<>>, Routed(view, ev)
  PROVE  ToSet(BucketRules(SelectBuckets(view, ev))) = InScope(db, ev)
<1>1. PICK sel : sel = SelectBuckets(view, ev) /\ sel \in Seq(DOMAIN db.keys)
  BY SelectedBuckets
<1>2. ToSet(BucketRules(sel)) =
        UNION {ToSet(Slice(db.bucketIdx, db.buckets[b])) : b \in ToSet(sel)}
  BY <1>1, RulesOfBuckets
<1>3. ToSet(sel) = {b \in DOMAIN db.keys : db.keys[b] \in RouteTokens(ev) \cup {<<>>}}
  BY <1>1, SelectsKeyed
<1>4. RouteTokens(ev) # {}
  BY RouteTokenIs
<1>5. InScope(db, ev) =
        UNION {ToSet(Slice(db.bucketIdx, db.buckets[b])) :
                 b \in {c \in DOMAIN db.keys : db.keys[c] \in RouteTokens(ev) \cup {<<>>}}}
  BY <1>4 DEF InScope
<1>. QED BY <1>1, <1>2, <1>3, <1>5

-----------------------------------------------------------------------------
(***************************************************************************)
(* What an evaluation reports.                                             *)
(***************************************************************************)

HitOne(d, view, acc, r) ==
  IF RuleMatch(d, view, d.rules[r]).ok THEN Append(acc, r) ELSE acc

HitsIn(d, view, l) == FoldLeft(LAMBDA acc, r : HitOne(d, view, acc, r), <<>>, l)

\* The hits of a list, rule by rule.
HitsStaysIn(P, n, d, view, l) ==
  \A x \in P, i \in 1 .. n : HitOne(d, view, x, l[i]) \in P

HitsRuns(P, n, d, view, l) ==
  \E h \in [0 .. n -> P] :
    /\ h[0] = <<>>
    /\ \A i \in 1 .. n : h[i] = HitOne(d, view, h[i - 1], l[i])
    /\ HitsIn(d, view, l) = h[n]

LEMMA HitsTrace ==
  ASSUME NEW P, NEW n \in Nat, NEW d, NEW view, NEW l, <<>> \in P,
         DOMAIN l = 1 .. n,
         HitsStaysIn(P, n, d, view, l)
  PROVE  HitsRuns(P, n, d, view, l)
<1> DEFINE all == l
           Eq(f) == f = [S \in SUBSET (DOMAIN all) |->
                           IF S = {} THEN <<>>
                           ELSE HitOne(d, view, f[S \ {Max(S)}], all[Max(S)])]
           it == CHOOSE f : Eq(f)
           g == [x \in P \X (1 .. n) |-> HitOne(d, view, x[1], all[x[2]])]
<1>1. n \in Nat /\ DOMAIN all = 1 .. n /\ <<>> \in P
  OBVIOUS
<1>2. HitsIn(d, view, l) = it[DOMAIN all]
  BY DEF HitsIn, FoldLeft, MapThenFoldSet
<1>3. \A i \in 1 .. n : all[i] = l[i]
  OBVIOUS
<1>4. g \in [P \X (1 .. n) -> P]
  <2> HIDE DEF all
  <2>1. \A x \in P, i \in 1 .. n : HitOne(d, view, x, all[i]) \in P
    BY <1>3 DEF HitsStaysIn
  <2> QED
    BY <2>1
<1>5. PICK f : Solves(f, P, <<>>, g, n)
  <2> HIDE DEF g, all
  <2> QED
    BY <1>1, <1>4, FoldExists
<1>6. \A S \in SUBSET (1 .. n) : S # {} => Max(S) \in 1 .. n
  <2>1. \A S \in SUBSET (1 .. n) : S \in SUBSET (0 .. n)
    BY <1>1
  <2>2. QED
    BY <1>1, <2>1, Greatest
<1>7. \A x \in P, i \in 1 .. n : g[<<x, i>>] = HitOne(d, view, x, all[i])
  OBVIOUS
<1>8. Eq(f)
  <2> HIDE DEF g, all
  <2>1. ASSUME NEW S \in SUBSET (1 .. n), S # {}
        PROVE  f[S] = HitOne(d, view, f[S \ {Max(S)}], all[Max(S)])
    <3>1. f[S \ {Max(S)}] \in P /\ f[S] = g[<<f[S \ {Max(S)}], Max(S)>>]
      BY <1>5, <2>1 DEF Solves
    <3>2. QED
      BY <1>6, <1>7, <2>1, <3>1
  <2>2. f[{}] = <<>> /\ f = [S \in SUBSET (1 .. n) |-> f[S]]
    BY <1>5 DEF Solves
  <2>3. QED
    BY <1>1, <2>1, <2>2
<1>9. Eq(it)
  <2> HIDE DEF Eq
  <2> QED
    BY <1>8
<1>10. it[{}] = <<>>
  BY <1>9
<1>11. ASSUME NEW S \in SUBSET (1 .. n), S # {}, it[S \ {Max(S)}] \in P
       PROVE  it[S] = g[<<it[S \ {Max(S)}], Max(S)>>]
  <2> HIDE DEF it, g, all
  <2>1. it[S] = HitOne(d, view, it[S \ {Max(S)}], all[Max(S)])
    BY <1>1, <1>9, <1>11
  <2>2. QED
    BY <1>6, <1>7, <1>11, <2>1
<1>12. StepsThrough(it, P, <<>>, g, n)
  <2> HIDE DEF it, g, all
  <2>1. Obeys(it, P, <<>>, g, n)
    BY <1>10, <1>11 DEF Obeys
  <2>2. QED
    BY <1>1, <1>4, <2>1, FoldTrace
<1> DEFINE h == [k \in 0 .. n |-> it[1 .. k]]
<1> HIDE DEF it, g, all
<1>13. ASSUME NEW i \in 1 .. n
       PROVE  h[i] = HitOne(d, view, h[i - 1], l[i])
  <2>1. i \in 1 .. n /\ i \in 0 .. n /\ i - 1 \in 0 .. n
    BY <1>1
  <2>2. it[1 .. i] = g[<<it[1 .. i - 1], i>>] /\ it[1 .. i - 1] \in P
    BY <1>12, <2>1 DEF StepsThrough
  <2>3. it[1 .. i] = HitOne(d, view, it[1 .. i - 1], l[i])
    BY <1>3, <1>7, <2>1, <2>2
  <2>4. QED
    BY <2>1, <2>3
<1>14. h \in [0 .. n -> P] /\ h[0] = <<>> /\ h[n] = it[1 .. n]
  BY <1>1, <1>12 DEF StepsThrough
<1>15. QED
  <2> HIDE DEF h
  <2> QED
    BY <1>1, <1>2, <1>13, <1>14 DEF HitsRuns

LEMMA AppendOnce ==
  ASSUME NEW S, NEW u \in Seq(S), IsInjective(u), NEW x \in S, x \notin ToSet(u)
  PROVE  IsInjective(Append(u, x))
<1>. DEFINE w == Append(u, x)
<1>1. /\ DOMAIN w = 1 .. Len(u) + 1 /\ DOMAIN u = 1 .. Len(u)
      /\ Len(u) \in Nat
      /\ \A i \in 1 .. Len(u) : w[i] = u[i]
      /\ w[Len(u) + 1] = x
  OBVIOUS
<1>. HIDE DEF w
<1>2. \A i : i \in 1 .. Len(u) + 1 <=> i \in 1 .. Len(u) \/ i = Len(u) + 1
  BY <1>1
<1>3. \A i \in 1 .. Len(u) : u[i] # x
  BY <1>1 DEF ToSet
<1>4. \A i, j \in 1 .. Len(u) : u[i] = u[j] => i = j
  BY <1>1 DEF IsInjective
<1>5. \A i, j \in DOMAIN w : w[i] = w[j] => i = j
  BY <1>1, <1>2, <1>3, <1>4
<1>. QED BY <1>5 DEF w, IsInjective

LEMMA EmptyOnce == IsInjective(<<>>)
BY DEF IsInjective

\* eval_done: a rule in several buckets is verified once.
LEMMA VerifyOnce ==
  ASSUME NEW R, NEW order \in Seq(R), NEW allowed, NEW s
  PROVE  Verify(s, order, allowed) \in Seq(R) /\ IsInjective(Verify(s, order, allowed))
<1>1. PICK P : P = {u \in Seq(R) : IsInjective(u)}
  OBVIOUS
<1>2. PICK n \in Nat : DOMAIN order = 1 .. n
  OBVIOUS
<1>3. ASSUME NEW acc \in P, NEW i \in DOMAIN order
      PROVE  VerifyOne(s, allowed, acc, order[i]) \in P
  <2>1. PICK r \in R : r = order[i]
    OBVIOUS
  <2>2. acc \in Seq(R) /\ IsInjective(acc)
    BY <1>1
  <2>3. CASE VerifyOne(s, allowed, acc, r) = acc
    BY <2>1, <2>3
  <2>4. CASE r \notin ToSet(acc) /\ VerifyOne(s, allowed, acc, r) = Append(acc, r)
    <3>1. Append(acc, r) \in Seq(R) /\ IsInjective(Append(acc, r))
      BY <2>2, <2>4, AppendOnce
    <3>. QED BY <1>1, <2>1, <2>4, <3>1
  <2>. QED BY <2>3, <2>4 DEF VerifyOne
<1>4. VerifyStaysIn(P, s, order, allowed) /\ <<>> \in P
  BY <1>1, <1>3, EmptyOnce DEF VerifyStaysIn
<1>5. Verify(s, order, allowed) \in P
  <2>1. PICK l : l = order
    OBVIOUS
  <2>2. DOMAIN l = 1 .. n /\ VerifyStaysIn(P, s, l, allowed) /\ <<>> \in P
    BY <1>2, <1>4, <2>1
  <2>3. \E h \in [0 .. n -> P] :
          /\ h[0] = <<>>
          /\ \A i \in 1 .. n : h[i] = VerifyOne(s, allowed, h[i - 1], l[i])
          /\ Verify(s, l, allowed) = h[n]
    BY <2>2, VerifyTrace
  <2>. QED BY <2>1, <2>3
<1>. QED BY <1>1, <1>5

\* The hits of a list without repetition: its rules that match, each once.
LEMMA HitsExact ==
  ASSUME NEW R, NEW l \in Seq(R), IsInjective(l), NEW d, NEW view
  PROVE  /\ HitsIn(d, view, l) \in Seq(R)
         /\ IsInjective(HitsIn(d, view, l))
         /\ ToSet(HitsIn(d, view, l)) = {r \in ToSet(l) : RuleMatch(d, view, d.rules[r]).ok}
<1>1. PICK P : P = Seq(R)
  OBVIOUS
<1>2. PICK n \in Nat : DOMAIN l = 1 .. n
  OBVIOUS
<1>. DEFINE ok(r) == RuleMatch(d, view, d.rules[r]).ok
<1>3. \A i \in 1 .. n : l[i] \in R
  BY <1>2
<1>4. \A i, j \in 1 .. n : l[i] = l[j] => i = j
  BY <1>2 DEF IsInjective
<1>5. ASSUME NEW acc, NEW i \in 1 .. n
      PROVE  HitOne(d, view, acc, l[i]) = IF ok(l[i]) THEN Append(acc, l[i]) ELSE acc
  BY DEF HitOne
<1>. HIDE DEF ok
<1>6. HitsStaysIn(P, n, d, view, l) /\ <<>> \in P
  <2>1. ASSUME NEW acc \in P, NEW i \in 1 .. n PROVE HitOne(d, view, acc, l[i]) \in P
    <3>1. PICK r \in R : r = l[i]
      BY <1>3
    <3>2. acc \in Seq(R) /\ Append(acc, r) \in Seq(R)
      BY <1>1
    <3>. QED BY <1>1, <1>5, <3>1, <3>2
  <2>. QED BY <1>1, <2>1 DEF HitsStaysIn
<1>7. PICK h \in [0 .. n -> P] :
        /\ h[0] = <<>>
        /\ \A i \in 1 .. n : h[i] = HitOne(d, view, h[i - 1], l[i])
        /\ HitsIn(d, view, l) = h[n]
  <2>1. PICK u : u = l
    OBVIOUS
  <2>2. DOMAIN u = 1 .. n /\ HitsStaysIn(P, n, d, view, u) /\ <<>> \in P
    BY <1>2, <1>6, <2>1
  <2>3. HitsRuns(P, n, d, view, u)
    BY <2>2, HitsTrace
  <2>. QED BY <2>1, <2>3 DEF HitsRuns
<1>. DEFINE Upto(i) == {l[j] : j \in {k \in 1 .. i : ok(l[k])}}
            Q == {i \in Nat : i <= n => IsInjective(h[i]) /\ ToSet(h[i]) = Upto(i)}
<1>8. 0 \in Q
  <2>1. PICK none : none = <<>>
    OBVIOUS
  <2>2. ToSet(none) = {} /\ IsInjective(none)
    BY <2>1, EmptyOnce DEF ToSet
  <2>3. Upto(0) = {}
    OBVIOUS
  <2>4. h[0] = none
    BY <1>7, <2>1
  <2>. QED BY <2>2, <2>3, <2>4
<1>9. ASSUME NEW i \in Nat, i \in Q PROVE i + 1 \in Q
  <2>1. SUFFICES ASSUME i + 1 <= n
                 PROVE  IsInjective(h[i + 1]) /\ ToSet(h[i + 1]) = Upto(i + 1)
    OBVIOUS
  <2>2. PICK j \in 1 .. n : j = i + 1 /\ j - 1 = i /\ i \in 0 .. n /\ i <= n
    BY <2>1
  <2>3. IsInjective(h[i]) /\ ToSet(h[i]) = Upto(i)
    BY <1>9, <2>2
  <2>4. \A k : k \in 1 .. i + 1 <=> k \in 1 .. i \/ k = j
    BY <2>2
  <2>5. PICK acc, r : acc = h[i] /\ r = l[j] /\ acc \in Seq(R) /\ r \in R
    BY <1>1, <1>3, <2>2
  <2>6. h[j] = IF ok(r) THEN Append(acc, r) ELSE acc
    BY <1>5, <1>7, <2>2, <2>5
  <2>7. r \notin ToSet(acc)
    <3>1. \A k \in 1 .. i : k \in 1 .. n /\ k # j
      BY <2>2
    <3>2. \A k \in 1 .. i : l[k] # r
      BY <1>4, <2>5, <3>1
    <3>. QED BY <2>3, <2>5, <3>2
  <2>8. Upto(i + 1) = IF ok(r) THEN Upto(i) \cup {r} ELSE Upto(i)
    BY <2>4, <2>5
  <2>9. CASE ok(r)
    <3>1. IsInjective(Append(acc, r)) /\ ToSet(Append(acc, r)) = ToSet(acc) \cup {r}
      BY <2>3, <2>5, <2>7, AppendOnce, AppendSet
    <3>. HIDE DEF Upto
    <3>. QED BY <2>2, <2>3, <2>5, <2>6, <2>8, <2>9, <3>1
  <2>10. CASE ~ok(r)
    <3>. HIDE DEF Upto
    <3>. QED BY <2>2, <2>3, <2>5, <2>6, <2>8, <2>10
  <2>. QED BY <2>9, <2>10
<1>10. n \in Q
  <2>1. \A i \in Nat : i \in Q => i + 1 \in Q
    BY <1>9
  <2>. HIDE DEF Q
  <2>. QED BY <1>8, <2>1, SetInduction
<1>11. IsInjective(h[n]) /\ ToSet(h[n]) = Upto(n) /\ h[n] \in P
  <2>. HIDE DEF Upto
  <2>. QED BY <1>10
<1>12. Upto(n) = {r \in ToSet(l) : ok(r)}
  <2>1. \A r : r \in ToSet(l) <=> \E i \in 1 .. n : r = l[i]
    BY <1>2 DEF ToSet
  <2>. QED BY <2>1
<1>. QED BY <1>1, <1>7, <1>11, <1>12 DEF ok

\* The end of an evaluation in which no rule was verified yet: it counts, once each,
\* the rules verified that match, stores as many as there is room for, and stamps
\* those verified.
LEMMA FinishReports ==
  ASSUME NEW view, NEW s, NEW order \in Seq(Rules), NEW allowed, NEW max \in Nat, NEW read,
         \A r \in Rules : s.evalDone[r] # s.gen,
         Finish(view, s, order, allowed, max, read),
         NEW hits,
         hits = {r \in ToSet(order) \cap allowed : RuleMatch(db, view, db.rules[r]).ok}
  PROVE  /\ Spec0!Report(hits, max)
         /\ \A r \in ToSet(order) : evalDone'[r] = gen' <=> r \in allowed
<1>1. PICK v : /\ v = Verdicts(view, s, order, allowed)
               /\ gen' = s.gen
               /\ evalDone' = [r \in Rules |-> IF r \in v.verified THEN s.gen
                                               ELSE s.evalDone[r]]
               /\ fired' = Len(v.hits)
               /\ out' = SubSeq(v.hits, 1, IF Len(v.hits) < max THEN Len(v.hits) ELSE max)
  BY DEF Finish
<1>2. PICK R, l : R = Rules /\ l = Verify(s, order, allowed)
  OBVIOUS
<1>3. l \in Seq(R) /\ IsInjective(l)
  BY <1>2, VerifyOnce
<1>4. ToSet(l) = ToSet(order) \cap allowed
  <2>1. order \in Seq(R) /\ \A r \in R : s.evalDone[r] # s.gen
    BY <1>2
  <2>. QED BY <1>2, <2>1, VerifyExact
<1>5. v.verified = ToSet(l) /\ v.hits = HitsIn(db, view, l)
  <2>1. v.hits = FoldLeft(LAMBDA acc, r : IF RuleMatch(db, view, db.rules[r]).ok
                                          THEN Append(acc, r) ELSE acc, <<>>, l)
    BY <1>1, <1>2 DEF Verdicts
  <2>2. HitsIn(db, view, l) =
          FoldLeft(LAMBDA acc, r : IF RuleMatch(db, view, db.rules[r]).ok
                                   THEN Append(acc, r) ELSE acc, <<>>, l)
    BY DEF HitsIn, HitOne, FoldLeft, MapThenFoldSet
  <2>3. v.verified = ToSet(l)
    BY <1>1, <1>2 DEF Verdicts
  <2>. QED BY <2>1, <2>2, <2>3
<1>6. PICK all : all = v.hits
  OBVIOUS
<1>7. all \in Seq(R) /\ IsInjective(all) /\ ToSet(all) = hits
  BY <1>3, <1>4, <1>5, <1>6, HitsExact
<1>8. PICK n \in Nat : n = Len(all) /\ DOMAIN all = 1 .. n
  BY <1>7
<1>9. Cardinality(hits) = n
  BY <1>7, <1>8, ListedOnce
<1>10. PICK m \in 0 .. n : m = IF n < max THEN n ELSE max
  BY <1>8
<1>11. PICK some : some = SubSeq(all, 1, m) /\ some \in Seq(R) /\ Len(some) = m
                   /\ \A i \in 1 .. m : some[i] = all[i]
  <2>1. m \in Nat /\ 1 .. m \subseteq 1 .. n
    BY <1>10
  <2>2. \A i \in 1 .. m : all[i] \in R
    BY <1>7, <1>8, <2>1
  <2>3. /\ SubSeq(all, 1, m) \in Seq(R)
        /\ Len(SubSeq(all, 1, m)) = IF 1 <= m THEN m - 1 + 1 ELSE 0
        /\ \A i \in 1 .. m - 1 + 1 : SubSeq(all, 1, m)[i] = all[1 + i - 1]
    BY <2>1, <2>2, SubSeqProperties
  <2>4. m - 1 + 1 = m /\ (~(1 <= m) => m = 0) /\ \A i \in 1 .. m : 1 + i - 1 = i
    BY <1>10
  <2>. QED BY <2>3, <2>4
<1>12. DOMAIN some = 1 .. m
  BY <1>10, <1>11
<1>13. ToSet(some) \subseteq hits
  <2>1. \A i \in 1 .. m : i \in 1 .. n
    BY <1>10
  <2>2. \A i \in 1 .. m : some[i] \in ToSet(all)
    BY <1>8, <1>11, <2>1 DEF ToSet
  <2>. QED BY <1>7, <1>12, <2>2 DEF ToSet
<1>14. Cardinality(ToSet(some)) = Len(some)
  <2>1. \A i \in 1 .. m : i \in 1 .. n
    BY <1>10
  <2>2. IsInjective(some)
    BY <1>7, <1>8, <1>11, <1>12, <2>1 DEF IsInjective
  <2>. QED BY <1>11, <2>2, ListedOnce
<1>15. fired' = Cardinality(hits) /\ out' = some
  BY <1>1, <1>6, <1>8, <1>9, <1>10, <1>11
<1>16. Spec0!Report(hits, max)
  <2>1. \A S : Spec0!Cardinality(S) = Cardinality(S)
    BY DEF Spec0!Cardinality, Cardinality
  <2>2. Spec0!ToSet(out') = ToSet(some)
    BY <1>15 DEF Spec0!ToSet, ToSet
  <2>3. Len(some) = IF Cardinality(hits) < max THEN Cardinality(hits) ELSE max
    BY <1>9, <1>10, <1>11
  <2>. QED BY <1>13, <1>14, <1>15, <2>1, <2>2, <2>3 DEF Spec0!Report
<1>17. \A r \in ToSet(order) : evalDone'[r] = gen' <=> r \in allowed
  <2>1. \A r \in ToSet(order) : r \in Rules
    BY DEF ToSet
  <2>. QED BY <1>1, <1>4, <1>5, <2>1
<1>. QED BY <1>16, <1>17

-----------------------------------------------------------------------------
(***************************************************************************)
(* The matcher implements its specification.                               *)
(***************************************************************************)

\* An evaluation reports its verdicts on a set of rules, once it verifies all of those
\* that match and no other.
LEMMA FinishMatches ==
  ASSUME db \in Dbs, Grouped(db), ScratchInv, NEW ev, NEW view, view = FieldsOf(db, ev),
         NEW s, s = BumpGen(Stamps),
         NEW order \in Seq(Rules), NEW allowed, NEW max \in Nat, NEW read,
         Finish(view, s, order, allowed, max, read),
         \A r \in ToSet(order) : Matches(db, ev, r) => r \in allowed
  PROVE  Spec0!Report({r \in ToSet(order) : Matches(db, ev, r)}, max)
<1>1. \A r \in Rules : s.evalDone[r] # s.gen
  <2>1. db # NoDb
    BY NoDbAssumption DEF NoDbAssumption
  <2>2. s.gen \in 1 .. GenMax /\ \A r \in Rules : s.evalDone[r] \in 0 .. s.gen - 1
    BY <2>1, BumpAdvances
  <2>3. \A i \in 0 .. s.gen - 1 : i # s.gen
    BY <2>2, TeddyAssumption DEF TeddyAssumption
  <2>. QED BY <2>2, <2>3
<1>2. PICK hits : hits = {r \in ToSet(order) \cap allowed :
                            RuleMatch(db, view, db.rules[r]).ok}
  OBVIOUS
<1>3. Spec0!Report(hits, max)
  <2>1. /\ Spec0!Report(hits, max)
        /\ \A r \in ToSet(order) : evalDone'[r] = gen' <=> r \in allowed
    BY <1>1, <1>2, FinishReports
  <2>. QED BY <2>1
<1>4. \A r \in ToSet(order) : r \in Rules
  BY DEF ToSet
<1>5. ASSUME NEW r \in ToSet(order)
      PROVE  RuleMatch(db, view, db.rules[r]).ok <=> Matches(db, ev, r)
  <2>1. RuleTyped(db, db.rules[r])
    BY <1>4, DbRules DEF Rules
  <2>. QED BY <2>1, RuleIsMeant
<1>6. hits = {r \in ToSet(order) : Matches(db, ev, r)}
  BY <1>2, <1>5
<1>. QED BY <1>3, <1>6

\* Every rule in table order.
LEMMA AllRulesReported ==
  ASSUME db \in Dbs, Grouped(db), ScratchInv, NEW ev, NEW view, view = FieldsOf(db, ev),
         NEW max \in Nat, NEW read, RunAllRules(view, max, read)
  PROVE  Spec0!Report({r \in DOMAIN db.rules : Matches(db, ev, r)}, max)
<1>1. PICK R, order, s : /\ R = Rules /\ order = [i \in Rules |-> i] /\ s = BumpGen(Stamps)
                         /\ Finish(view, s, order, R, max, read)
  BY DEF RunAllRules
<1>2. PICK n \in Nat : R = 1 .. n
  <2>1. PICK a : ArtifactTypes(a) /\ db = Loaded(a)
    BY DbOfArtifact
  <2>2. a["rules"] \in Seq(ToSet(a["rules"])) /\ db.rules = a.rules
    BY <2>1 DEF ArtifactTypes, Loaded
  <2>3. PICK K, rules : K = ToSet(a["rules"]) /\ rules = db.rules
    OBVIOUS
  <2>4. rules \in Seq(K)
    BY <2>2, <2>3
  <2>5. DOMAIN rules = 1 .. Len(rules) /\ Len(rules) \in Nat
    BY <2>4
  <2>. QED BY <1>1, <2>3, <2>5 DEF Rules
<1>3. order \in Seq(R) /\ ToSet(order) = R
  BY <1>1, <1>2 DEF ToSet
<1>4. order \in Seq(Rules) /\ \A r \in ToSet(order) : Matches(db, ev, r) => r \in R
  BY <1>1, <1>3
<1>5. Spec0!Report({r \in ToSet(order) : Matches(db, ev, r)}, max)
  BY <1>1, <1>4, FinishMatches
<1>6. {r \in ToSet(order) : Matches(db, ev, r)} = {r \in DOMAIN db.rules : Matches(db, ev, r)}
  BY <1>1, <1>3 DEF Rules
<1>. QED BY <1>5, <1>6

\* The buckets of an event in full, and
LEMMA BucketsReported ==
  ASSUME db \in Dbs, Grouped(db), DistinctKeys(db), ScratchInv,
         NEW ev, NEW view, view = FieldsOf(db, ev),
         db.keys # <<>>, Routed(view, ev), NEW max \in Nat,
         NEW sel, sel = SelectBuckets(view, ev), RunBuckets(view, sel, max)
  PROVE  Spec0!Report({r \in InScope(db, ev) : Matches(db, ev, r)}, max)
<1>1. PICK R, order, s : /\ R = Rules /\ order = BucketRules(sel) /\ s = BumpGen(Stamps)
                         /\ Finish(view, s, order, R, max, {db.catField})
  BY DEF RunBuckets
<1>2. sel \in Seq(DOMAIN db.keys)
  BY SelectedBuckets
<1>3. order \in Seq(Rules) /\ ToSet(order) = InScope(db, ev)
  BY <1>1, <1>2, RulesOfBuckets, BucketsAreScope
<1>4. \A r \in ToSet(order) : r \in R
  BY <1>1, <1>3 DEF ToSet
<1>5. Spec0!Report({r \in ToSet(order) : Matches(db, ev, r)}, max)
  BY <1>1, <1>3, <1>4, FinishMatches
<1>. QED BY <1>3, <1>5

\* prefiltered: what the prefilter leaves out does not match.
LEMMA PrefilteredReported ==
  ASSUME db \in Dbs, AsPromised(db), ScratchInv, tscr \in Scratches(Len(db.needles)),
         NEW ev \in Events, NEW view, view = FieldsOf(db, ev), view \in Views(db),
         db.keys # <<>>, Routed(view, ev), NEW max \in Nat,
         NEW sel, sel = SelectBuckets(view, ev), RunPrefiltered(view, sel, max)
  PROVE  Spec0!Report({r \in InScope(db, ev) : Matches(db, ev, r)}, max)
<1>1. PICK s, p, read :
        /\ s = BumpGen(Stamps) /\ p = Prefilter(view, sel, s)
        /\ Finish(view, s, BucketRules(sel), p.candidates, max, read)
  BY DEF RunPrefiltered
<1>2. PICK order, allowed : order = BucketRules(sel) /\ allowed = p.candidates
  OBVIOUS
<1>3. Finish(view, s, order, allowed, max, read)
  BY <1>1, <1>2
<1>4. sel \in Seq(DOMAIN db.keys)
  BY SelectedBuckets
<1>5. sel # <<>>
  BY DEF RunPrefiltered, Prefilters, ToSet
<1>6. order \in Seq(Rules) /\ ToSet(order) = InScope(db, ev)
  BY <1>2, <1>4, RulesOfBuckets, BucketsAreScope DEF AsPromised
<1>7. \A r \in ToSet(order) : r \in Rules
  BY <1>6 DEF ToSet
<1>8. ASSUME NEW r \in ToSet(order), Matches(db, ev, r)
      PROVE  r \in allowed
  <2>0. Indexed(db)
    BY DEF RunPrefiltered, Prefilters
  <2>1. Candidate(db, view, r)
    BY <1>7, <1>8, <2>0 DEF AsPromised, LiteralsNecessary, Rules
  <2>2. CandidatesAre(db, view, sel, evalDone', gen')
    BY <1>4, <1>5, PrefilteredCandidates DEF AsPromised
  <2>3. evalDone'[r] = gen'
    BY <1>2, <1>5, <2>1, <2>2, RulesInIs DEF CandidatesAre
  <2>4. \A q \in ToSet(order) : evalDone'[q] = gen' <=> q \in allowed
    <3>1. \A q \in Rules : s.evalDone[q] # s.gen
      <4>1. db # NoDb
        BY NoDbAssumption DEF NoDbAssumption
      <4>2. s.gen \in 1 .. GenMax /\ \A q \in Rules : s.evalDone[q] \in 0 .. s.gen - 1
        BY <1>1, <4>1, BumpAdvances
      <4>3. \A i \in 0 .. s.gen - 1 : i # s.gen
        BY <4>2, TeddyAssumption DEF TeddyAssumption
      <4>. QED BY <4>2, <4>3
    <3>2. PICK hits : hits = {q \in ToSet(order) \cap allowed :
                                RuleMatch(db, view, db.rules[q]).ok}
      OBVIOUS
    <3>. QED BY <1>3, <1>6, <3>1, <3>2, FinishReports
  <2>. QED BY <2>3, <2>4
<1>9. Spec0!Report({r \in ToSet(order) : Matches(db, ev, r)}, max)
  BY <1>1, <1>3, <1>6, <1>8, FinishMatches DEF AsPromised
<1>. QED BY <1>6, <1>9

\* sigma_eval_run evaluates the event,
LEMMA RunEvaluates ==
  ASSUME MatchInv, \A d \in Dbs : AsPromised(d),
         NEW ev \in Events, NEW max \in MaxHitsOf, Run(ev, max)
  PROVE  Spec0!Evaluate
<1>1. db # NoDb /\ db' = db /\ call' = [event |-> ev, linear |-> FALSE, max |-> max]
  BY DEF Run
<1>2. db \in Dbs /\ tscr \in Scratches(Len(db.needles)) /\ ScratchInv /\ AsPromised(db)
  BY <1>1 DEF MatchInv, Typed
<1>3. max \in Nat
  BY RouteAssumption DEF RouteAssumption
<1>4. PICK view : view = View(ClearMemo(memo), ev)
  OBVIOUS
<1>5. view \in Views(db) /\ view = EventView'
  BY <1>1, <1>2, <1>4, ViewOfCall
<1>6. view = FieldsOf(db, ev)
  <2>1. EventView' = [f \in DOMAIN db.fields |-> Value(ev, db.fields[f])]
    BY <1>1 DEF EventView, FieldsOf, Value
  <2>. QED BY <1>5, <2>1 DEF FieldsOf
<1>7. PICK routed : routed = (db.keys # <<>> /\ Routed(view, ev))
  OBVIOUS
<1>8. Spec0!Report({r \in InScope(db, ev) : Matches(db, ev, r)}, max)
  <2>1. CASE /\ db.keys # <<>> /\ Routed(view, ev)
             /\ \E sel \in {SelectBuckets(view, ev)} :
                  RunPrefiltered(view, sel, max) \/ RunBuckets(view, sel, max)
    <3>1. PICK sel : /\ sel = SelectBuckets(view, ev)
                     /\ RunPrefiltered(view, sel, max) \/ RunBuckets(view, sel, max)
      BY <2>1
    <3>2. CASE RunPrefiltered(view, sel, max)
      BY <1>2, <1>3, <1>5, <1>6, <2>1, <3>1, <3>2, PrefilteredReported
    <3>3. CASE RunBuckets(view, sel, max)
      BY <1>2, <1>3, <1>6, <2>1, <3>1, <3>3, BucketsReported DEF AsPromised
    <3>. QED BY <3>1, <3>2, <3>3
  <2>2. CASE ~(db.keys # <<>> /\ Routed(view, ev)) /\ RunAllRules(view, max, {db.catField})
    <3>1. InScope(db, ev) = DOMAIN db.rules
      <4>1. Routed(view, ev) <=> RouteTokens(ev) # {}
        BY <1>2, <1>6, RouteTokenIs
      <4>. QED BY <2>2, <4>1 DEF InScope
    <3>2. Spec0!Report({r \in DOMAIN db.rules : Matches(db, ev, r)}, max)
      BY <1>2, <1>3, <1>6, <2>2, AllRulesReported DEF AsPromised
    <3>. QED BY <3>1, <3>2
  <2>. QED BY <1>4, <2>1, <2>2 DEF Run
<1>9. call' \in Spec0!Calls /\ call'.event = ev /\ call'.linear = FALSE /\ call'.max = max
  BY <1>1 DEF Spec0!Calls
<1>. QED BY <1>1, <1>8, <1>9 DEF Spec0!Evaluate

\* and sigma_eval_run_linear does.
LEMMA LinearEvaluates ==
  ASSUME MatchInv, \A d \in Dbs : AsPromised(d),
         NEW ev \in Events, NEW max \in MaxHitsOf, RunLinear(ev, max)
  PROVE  Spec0!Evaluate
<1>1. db # NoDb /\ db' = db /\ call' = [event |-> ev, linear |-> TRUE, max |-> max]
  BY DEF RunLinear
<1>2. db \in Dbs /\ ScratchInv /\ Grouped(db)
  BY <1>1 DEF MatchInv, Typed, AsPromised
<1>3. max \in Nat
  BY RouteAssumption DEF RouteAssumption
<1>4. PICK view : view = View(ClearMemo(memo), ev)
  OBVIOUS
<1>5. view = EventView'
  BY <1>1, <1>2, <1>4, ViewOfCall
<1>6. view = FieldsOf(db, ev)
  <2>1. EventView' = [f \in DOMAIN db.fields |-> Value(ev, db.fields[f])]
    BY <1>1 DEF EventView, FieldsOf, Value
  <2>. QED BY <1>5, <2>1 DEF FieldsOf
<1>7. RunAllRules(view, max, {})
  BY <1>4 DEF RunLinear
<1>8. Spec0!Report({r \in DOMAIN db.rules : Matches(db, ev, r)}, max)
  BY <1>2, <1>3, <1>6, <1>7, AllRulesReported
<1>9. call' \in Spec0!Calls /\ call'.event = ev /\ call'.linear = TRUE /\ call'.max = max
  BY <1>1 DEF Spec0!Calls
<1>. QED BY <1>1, <1>8, <1>9 DEF Spec0!Evaluate

LEMMA LoadLoads ==
  ASSUME NEW i \in DOMAIN Artifacts, Load(i)
  PROVE  Spec0!Load
<1>1. db = NoDb /\ db' = Loaded(Artifacts[i]) /\ LoadResult(Artifacts[i]) = "ok"
  BY DEF Load
<1>2. db' \in Dbs
  <2>1. Artifacts[i] \in ToSet(Artifacts)
    BY DEF ToSet
  <2>. QED BY <1>1, <2>1 DEF Dbs
<1>3. Spec0!Unreported
  BY DEF Load, Create, NoResult, Spec0!Unreported
<1>. QED BY <1>1, <1>2, <1>3 DEF Spec0!Load

\* Every step of the matcher is one of SigmaSpec, or changes nothing it speaks of.
LEMMA StepsOfSpec ==
  ASSUME MatchInv, \A d \in Dbs : AsPromised(d), [Next]_vars
  PROVE  [Spec0!Next]_<<db, call, fired, out>>
<1>1. CASE \E i \in DOMAIN Artifacts : Load(i)
  BY <1>1, LoadLoads DEF Spec0!Next
<1>2. CASE Free
  BY <1>2 DEF Free, Create, NoResult, Spec0!Free, Spec0!Unreported, Spec0!Next
<1>3. CASE \E m \in 0 .. 2 : SetPrefilter(m)
  BY <1>3 DEF SetPrefilter, result
<1>4. CASE \E ev \in Events, max \in MaxHitsOf : Run(ev, max)
  BY <1>4, RunEvaluates DEF Spec0!Next
<1>5. CASE \E ev \in Events, max \in MaxHitsOf : RunLinear(ev, max)
  BY <1>5, LinearEvaluates DEF Spec0!Next
<1>6. CASE UNCHANGED vars
  BY <1>6 DEF vars, result
<1>. QED BY <1>1, <1>2, <1>3, <1>4, <1>5, <1>6 DEF Next

\* For every set of artifacts compiled as promised, and every sequence of loads, events
\* and settings, sigma_eval_run and sigma_eval_run_linear count exactly the rules of the
\* event's buckets whose condition, evaluated in full on the fields of that event alone,
\* holds, and return each once, as many as fit.  The memo, the lazy and short-cutting
\* evaluation of the conditions, the routing, the prefilter and its stamps change
\* nothing of that: the matcher implements SigmaSpec.
THEOREM MatcherImplementsSpec ==
  ASSUME \A d \in Dbs : AsPromised(d)
  PROVE  Spec => MatchesSpec
<1>1. Init => Spec0!Init
  BY DEF Init, Spec0!Init
<1>2. MatchInv /\ [Next]_vars => [Spec0!Next]_<<db, call, fired, out>>
  BY StepsOfSpec
<1>. QED BY <1>1, <1>2, MatcherIsTyped, PTL DEF Spec, MatchesSpec, Spec0!Spec

-----------------------------------------------------------------------------
\* What the last prefiltered evaluation ran on.
PreInv ==
  pre # <<>> => /\ db \in Dbs /\ Indexed(db)
                /\ call.event \in Events /\ pre \in Seq(DOMAIN db.keys)

LEMMA RunPre ==
  ASSUME MatchInv, NEW ev \in Events, NEW max \in MaxHitsOf, Run(ev, max)
  PROVE  PreInv'
<1>1. db \in Dbs /\ db' = db /\ call'.event = ev
  BY DEF Run, MatchInv, Typed
<1>2. PICK view : view = View(ClearMemo(memo), ev)
  OBVIOUS
<1>3. CASE pre' = <<>>
  BY <1>3 DEF PreInv
<1>4. CASE \E sel \in {SelectBuckets(view, ev)} : RunPrefiltered(view, sel, max)
  <2>1. pre' = SelectBuckets(view, ev)
    BY <1>4 DEF RunPrefiltered
  <2>2. pre' \in Seq(DOMAIN db.keys)
    BY <1>1, <2>1, SelectedBuckets
  <2>3. Indexed(db) /\ Indexed(db)'
    BY <1>1, <1>4 DEF RunPrefiltered, Prefilters, Indexed
  <2>. QED BY <1>1, <2>2, <2>3 DEF PreInv
<1>. QED BY <1>2, <1>3, <1>4 DEF Run, RunBuckets, RunAllRules

\* Where every event a rule matches has an atom of each of its clauses, the prefilter
\* never prunes a rule that matches (sigma_format.c): what it reads off the event's
\* bytes, in whatever state earlier events left its scratch, is enough.
THEOREM PruningIsSound ==
  ASSUME \A d \in Dbs : AllWide(d) /\ PostedWhereNamed(d) /\ LiteralsNecessary(d)
  PROVE  Spec => []PruneIsSound
<1>1. Init => PreInv
  BY DEF Init, PreInv
<1>2. MatchInv /\ PreInv /\ [Next]_vars => PreInv'
  <2>. SUFFICES ASSUME MatchInv, PreInv, [Next]_vars PROVE PreInv'
    OBVIOUS
  <2>1. CASE pre' = <<>>
    BY <2>1 DEF PreInv
  <2>2. CASE UNCHANGED <<db, pre, call>>
    BY <2>2 DEF PreInv, Indexed
  <2>3. CASE \E ev \in Events, max \in MaxHitsOf : Run(ev, max)
    BY <2>3, RunPre
  <2>4. pre' = <<>> \/ UNCHANGED <<db, pre, call>>
        \/ \E ev \in Events, max \in MaxHitsOf : Run(ev, max)
    BY DEF Next, Load, Free, Create, NoResult, SetPrefilter, RunLinear, RunAllRules,
       vars, scratch, result
  <2>. QED BY <2>1, <2>2, <2>3, <2>4
<1>3. PreInv /\ CandidatesExact => PruneIsSound
  <2>. SUFFICES ASSUME PreInv, CandidatesExact, NEW r \in Gated, Matches(db, call.event, r)
                PROVE  evalDone[r] = gen
    BY DEF PruneIsSound
  <2>1. pre # <<>> /\ r \in ToSet(BucketRules(pre))
    BY DEF Gated
  <2>2. /\ db \in Dbs /\ Indexed(db)
        /\ call.event \in Events /\ pre \in Seq(DOMAIN db.keys)
    BY <2>1 DEF PreInv
  <2>3. r \in DOMAIN db.rules
    <3>1. PICK order : order = BucketRules(pre) /\ order \in Seq(Rules)
      BY <2>2, RulesOfBuckets
    <3>. QED BY <2>1, <3>1 DEF ToSet, Rules
  <2>4. Candidate(db, EventView, r)
    BY <2>2, <2>3 DEF LiteralsNecessary, EventView
  <2>. QED BY <2>4 DEF CandidatesExact
<1>4. Spec => []CandidatesExact
  BY CandidatesAreExact
<1>. QED BY <1>1, <1>2, <1>3, <1>4, MatcherIsTyped, PTL DEF Spec
=============================================================================
