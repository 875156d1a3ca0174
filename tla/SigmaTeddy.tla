----------------------------- MODULE SigmaTeddy -----------------------------
(***************************************************************************)
(* The literal scan of sigma_teddy.h: which needles occur in a text.       *)
(*                                                                         *)
(* A text or a needle (a word) is the sequence of its bytes.  The needles  *)
(* are chained in two hash tables, by their first three bytes and, when    *)
(* shorter, by two.  At each position the scan walks the chains its bytes  *)
(* hash to and compares each needle on them there; chunks none of whose    *)
(* bytes could start a needle are skipped.  The scratch keeps, for each    *)
(* needle, the scan it was last found in, so that it is reported once per  *)
(* scan.                                                                   *)
(***************************************************************************)
EXTENDS Integers, Sequences, FiniteSets, SequencesExt

CONSTANTS
  HashSize,  \* TEDDY_HASH_SIZE; the hash itself is abstracted to a remainder
  Chunk,     \* 16, the bytes of a SIMD register
  GenMax     \* UINT32_MAX, the last generation before a counter wraps around

ASSUME TeddyAssumption ==
  HashSize \in Nat \ {0} /\ Chunk \in Nat \ {0} /\ GenMax \in Nat \ {0}

LowerCase(c) == IF c \in 65 .. 90 THEN c + 32 ELSE c
UpperCase(c) == IF c \in 97 .. 122 THEN c - 32 ELSE c

\* The bytes of two words agree, case folded.
SameWord(v, w) ==
  Len(v) = Len(w) /\ \A i \in DOMAIN v : LowerCase(v[i]) = LowerCase(w[i])

\* teddy_eq_ci, with the test that what is left of the text is long enough.
StartsAt(hay, p, n) ==
  p + Len(n) - 1 <= Len(hay) /\ SameWord(SubSeq(hay, p, p + Len(n) - 1), n)

Occurs(hay, n) == \E p \in DOMAIN hay : StartsAt(hay, p, n)

Key2(w, p) == (LowerCase(w[p]) + 256 * LowerCase(w[p + 1])) % HashSize
Key3(w, p) == (LowerCase(w[p]) + 256 * LowerCase(w[p + 1])
                               + 65536 * LowerCase(w[p + 2])) % HashSize

LongChain(needles, ids, h) ==
  {k \in ids : Len(needles[k]) >= 3 /\ Key3(needles[k], 1) = h}

ShortChain(needles, ids, h) ==
  {k \in ids : Len(needles[k]) < 3 /\ Key2(needles[k], 1) = h}

\* Both cases of every first byte.
FirstBytes(needles, ids) ==
  UNION {{LowerCase(needles[k][1]), UpperCase(LowerCase(needles[k][1]))} : k \in ids}

\* The matcher over the needles in ids: the two tables and the nibble tables
\* over the first bytes.
TeddyBuild(needles, ids) ==
  [ needles |-> needles,
    long    |-> [h \in 0 .. HashSize - 1 |-> LongChain(needles, ids, h)],
    short   |-> [h \in 0 .. HashSize - 1 |-> ShortChain(needles, ids, h)],
    lo      |-> {c % 16 : c \in FirstBytes(needles, ids)},
    hi      |-> {c \div 16 : c \in FirstBytes(needles, ids)} ]

\* Mutant of Swept: the last byte of a chunk is left to the next one.
SweptShifted(t, hay, p) ==
  LET s == p - ((p - 1) % Chunk)
  IN s + Chunk - 1 > Len(hay)
     \/ \E i \in s .. s + Chunk - 2 :
          hay[i] % 16 \in t.lo /\ hay[i] \div 16 \in t.hi

\* Is position p looked at?  A whole chunk is skipped when both nibbles of none
\* of its bytes are those of a first byte; the tail never is.
Swept(t, hay, p) ==
  LET s == p - ((p - 1) % Chunk)
  IN s + Chunk - 1 > Len(hay)
     \/ \E i \in s .. s + Chunk - 1 :
          hay[i] % 16 \in t.lo /\ hay[i] \div 16 \in t.hi

\* The needles on the chains of position p, the three-byte table only where three
\* bytes are left.
Chained(t, hay, p) ==
  t.short[Key2(hay, p)]
    \cup IF p + 2 <= Len(hay) THEN t.long[Key3(hay, p)] ELSE {}

\* teddy_probe_at: the needles that start at p and are not stamped with this scan.
Probe(t, hay, p, scr, marked) ==
  {k \in Chained(t, hay, p) :
     /\ scr.stamp[k] # scr.gen /\ k \notin ToSet(marked)
     /\ StartsAt(hay, p, t.needles[k])}

NewScratch(n) == [gen |-> 0, stamp |-> [k \in 1 .. n |-> 0]]

\* Mutant of ScratchNext: the wrap keeps the stamps.
ScratchNextStale(scr) ==
  [scr EXCEPT !.gen = IF @ = GenMax THEN 1 ELSE @ + 1]

\* Generation 0 is "never found": the counter wraps to 1 over cleared stamps.
ScratchNext(scr) ==
  IF scr.gen < GenMax
  THEN [scr EXCEPT !.gen = @ + 1]
  ELSE [gen |-> 1, stamp |-> [k \in DOMAIN scr.stamp |-> 0]]

Stamp(scr, found) ==
  [scr EXCEPT !.stamp = [k \in DOMAIN @ |-> IF k \in found THEN scr.gen ELSE @[k]]]

\* The needles reported once position p has been visited.
ScanAt(t, hay, scr, marked, p) ==
  IF Swept(t, hay, p) THEN marked \o SetToSeq(Probe(t, hay, p, scr, marked))
  ELSE marked

\* One scan: the new scratch, and the needles reported, in order.  A scan is one
\* call, so a new generation, for each field of an event.
TeddyConfirm(t, hay, scr) ==
  LET now   == ScratchNext(scr)
      marks == FoldLeft(LAMBDA marked, p : ScanAt(t, hay, now, marked, p), <<>>,
                        [p \in 1 .. Len(hay) - 1 |-> p])
  IN IF Len(hay) < 2 THEN [scr |-> scr, marks |-> <<>>]
     ELSE [scr |-> Stamp(now, ToSet(marks)), marks |-> marks]
=============================================================================
