---------------------------- MODULE CorrTemporal ----------------------------
(***************************************************************************)
(* The temporal and temporal_ordered types: temporal_record_seen,          *)
(* corr_seen_mask, eval_temporal, eval_temporal_ordered, wm_insert and     *)
(* eval_temporal_ordered_wm of classify_corr.c.                            *)
(*                                                                         *)
(* A base rule is its index in base_rule_ids.  The boolean condition of a  *)
(* rule (an RPN in the code) is the set of seen masks it accepts.          *)
(*                                                                         *)
(* Operators only; CorrGroup is the state machine.                         *)
(***************************************************************************)
EXTENDS Integers, Sequences, FiniteSets, FiniteSetsExt, SequencesExt, Functions

CONSTANTS
  NBases,    \* n_base_rule_ids
  MaxSeen,   \* CORR_MAX_SEEN_RULES: seen table, hit buffer and mask width
  Order,     \* ordered_rule_ids
  Accept,    \* the seen masks the condition accepts
  WmCap      \* CORR_WM_CAP: pending hits under watermark slack

Bases == 1 .. NBases

ASSUME TemporalAssumption ==
  /\ NBases \in Nat \ {0} /\ MaxSeen \in Nat \ {0} /\ WmCap \in Nat \ {0}
  /\ Order \in Seq(Bases) \ {<<>>}
  /\ Accept \subseteq SUBSET Bases

\* hit_buf: the base rules of an event, the first ones in the rule's order when
\* they do not all fit.
HitBuf(hits) == {b \in hits : Cardinality({c \in hits : c < b}) < MaxSeen}

-----------------------------------------------------------------------------
\* The seen table, from a base rule to its latest timestamp.

NothingSeen == [b \in {} |-> 0]

\* The new base rules that find room in the table; the others are seen_truncated.
Admitted(seen, buf) ==
  LET new == buf \ DOMAIN seen
  IN {b \in new : Cardinality(DOMAIN seen) + Cardinality({c \in new : c < b}) < MaxSeen}

Record(seen, buf, t) ==
  [b \in DOMAIN seen \cup Admitted(seen, buf) |-> IF b \in buf THEN t ELSE seen[b]]

\* Mutant of RecordSeen: observations out of the window stay.
RecordSeenForever(seen, hits, t, windowStart) == Record(seen, HitBuf(hits), t)

\* temporal_record_seen: the hits first, the window after.
RecordSeen(seen, hits, t, windowStart) ==
  LET all == Record(seen, HitBuf(hits), t)
  IN Restrict(all, {b \in DOMAIN all : all[b] >= windowStart})

\* The base rules the mask has a bit for.
Masked == {b \in Bases : b <= MaxSeen}

\* corr_seen_mask: what the group saw, and what other instances said they saw.
Mask(seen, merged) == merged \cup (DOMAIN seen \cap Masked)

\* eval_temporal's verdict.
TemporalHolds(seen, merged, hasCond) ==
  IF hasCond THEN Mask(seen, merged) \in Accept ELSE Masked \subseteq Mask(seen, merged)

-----------------------------------------------------------------------------
\* Progress through Order: ordered_progress, ordered_anchor_ts, ordered_last_ts.

NoProgress == [step |-> 0, anchor |-> 0, last |-> 0]

\* Mutant of AgedOut: an old anchor is kept.
AgedOutNever(p, windowStart) == p

\* The sequence starts over when its first step has left the window.
AgedOut(p, windowStart) ==
  IF p.step > 0 /\ p.anchor < windowStart THEN NoProgress ELSE p

\* How many of the expected steps one set of hits satisfies in a row.
StepsIn(p, hits) ==
  Max({n \in 0 .. Len(Order) - p.step :
         \A i \in 1 .. n : Order[p.step + i] \in hits})

\* A first step starts the sequence whatever its time; in event time a later
\* one must not precede the step before it.
MayAdvance(p, t, eventTime) == p.step = 0 \/ ~eventTime \/ t >= p.last

\* Mutant of Advance: a fire leaves the progress as it is.
AdvanceKeeps(old, hits, t, windowStart, eventTime) ==
  LET p == AgedOut(old, windowStart)
      n == IF MayAdvance(p, t, eventTime) THEN StepsIn(p, hits) ELSE 0
  IN [progress |-> [p EXCEPT !.step = @ + n], fired |-> p.step + n >= Len(Order)]

\* eval_temporal_ordered: greedy, and ready for the next sequence after a fire.
Advance(old, hits, t, windowStart, eventTime) ==
  LET p == AgedOut(old, windowStart)
      n == IF MayAdvance(p, t, eventTime) THEN StepsIn(p, hits) ELSE 0
      q == [step   |-> p.step + n,
            anchor |-> IF p.step = 0 /\ n > 0 THEN t ELSE p.anchor,
            last   |-> IF n > 0 THEN t ELSE p.last]
  IN IF q.step >= Len(Order) THEN [progress |-> NoProgress, fired |-> TRUE]
                             ELSE [progress |-> q, fired |-> FALSE]

-----------------------------------------------------------------------------
\* The watermark buffer: pending hits [ts, rid].

\* Mutant of MakeWmRoom: the buffer takes one hit more than it has room for.
MakeWmRoomLate(wm) == IF Len(wm) > WmCap THEN Tail(wm) ELSE wm

\* A full buffer drops its oldest hit by moving the last one into its place.
MakeWmRoom(wm) ==
  LET n == Len(wm)
      oldest == Min({i \in 1 .. n : \A j \in 1 .. n : wm[i].ts <= wm[j].ts})
  IN IF n >= WmCap THEN SubSeq([wm EXCEPT ![oldest] = wm[n]], 1, n - 1) ELSE wm

\* Mutant of WmInsert: a late hit is appended like any other.
WmAppend(full, t, b) == Append(MakeWmRoom(full), [ts |-> t, rid |-> b])

\* wm_insert: from the end, past every hit with a later timestamp.
WmInsert(full, t, b) ==
  LET wm == MakeWmRoom(full)
      after == Max({i \in 0 .. Len(wm) : i = 0 \/ wm[i].ts <= t})
  IN InsertAt(wm, after + 1, [ts |-> t, rid |-> b])

\* The loop over the base rules that fills hit_buf, and the one over hit_buf.
InsertOne(wm, hits, t, b) == IF b \in HitBuf(hits) THEN WmInsert(wm, t, b) ELSE wm

InsertHits(wm, hits, t) ==
  FoldLeft(LAMBDA buffer, b : InsertOne(buffer, hits, t, b), wm, [b \in Bases |-> b])

\* Mutant of Pending: the comparison is strict.
PendingAtCutoff(e, cutoff) == e.ts >= cutoff

Pending(e, cutoff) == e.ts > cutoff

\* The flush has come to hit e: it stays, or it is offered at its own time but in
\* the window of the event that releases it.
FlushOne(pass, e, cutoff, windowStart) ==
  LET a == Advance(pass.progress, {e.rid}, e.ts, windowStart, TRUE)
  IN IF Pending(e, cutoff)
       THEN [pass EXCEPT !.kept = Append(@, e)]
       ELSE [progress |-> a.progress, fired |-> pass.fired \/ a.fired,
             kept |-> pass.kept, replayed |-> Append(pass.replayed, e.ts)]

Flush(progress, wm, cutoff, windowStart) ==
  FoldLeft(LAMBDA pass, e : FlushOne(pass, e, cutoff, windowStart),
           [progress |-> progress, fired |-> FALSE, kept |-> <<>>, replayed |-> <<>>],
           wm)
=============================================================================
