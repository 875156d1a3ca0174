----------------------------- MODULE SigmaMatch -----------------------------
(***************************************************************************)
(* The matcher, sigma_eval_run: route an event to buckets, restrict them   *)
(* to the rules whose necessary literals are present, verify those.        *)
(*                                                                         *)
(* One thread owns the scratch, and it is reused from event to event: the  *)
(* memo of field values, the generation with the stamps that tell this     *)
(* event's candidates and verified rules from older ones, and the stamps   *)
(* of the literal scan.  Nothing of it may leak into the next event.       *)
(* SigmaSpec says what the result must be.                                 *)
(***************************************************************************)
EXTENDS SigmaLoad

CONSTANTS
  Artifacts,   \* a sequence of artifacts that are to be loaded
  Events, MaxHitsOf, NoCall, NoDb,  \* as in SigmaSpec
  Unresolved,  \* a field not asked for yet in this event
  MinBucket,   \* SIGMA_PREFILTER_MIN_BUCKET
  MaxRoute     \* SIGMA_MAX_ROUTE_BUCKETS

Byte == 0 .. 255

Slices == [start : Nat, count : Nat]

\* The tables of an artifact are arrays, a slice is two counters, a needle is bytes,
\* groups and selections are counted from 1, and a clause is a position in its rule.  A
\* scanner is not the null one.
ArtifactTypes(a) ==
  /\ \A n \in {"preds", "cond", "rules", "fields", "bucketIdx", "postRefs", "litav", "fwit"} :
       a[n] \in Seq(ToSet(a[n]))
  /\ \A i \in DOMAIN a.preds : a.preds[i].group \in Nat \ {0}
  /\ a.sels \in Seq(Slices)
  /\ \A i \in DOMAIN a.cond : a.cond[i].kind = "sel" => a.cond[i].sel \in Nat \ {0}
  /\ \A i \in DOMAIN a.rules : a.rules[i].sels \in Slices /\ a.rules[i].cond \in Slices
  /\ a.keys \in Seq(ToSet(a.keys)) /\ DOMAIN a.buckets = DOMAIN a.keys
  /\ \A b \in DOMAIN a.buckets : a.buckets[b] \in Slices
  /\ a.needles \in Seq(Seq(Byte)) /\ DOMAIN a.posts = DOMAIN a.needles
  /\ \A k \in DOMAIN a.posts : a.posts[k] \in Slices
  /\ a.clauses \in Seq(Nat)
  /\ \A i \in DOMAIN a.postRefs : a.postRefs[i].clause \in Nat \ {0}
  /\ \A i \in DOMAIN a.fwit : a.fwit[i].clause \in Nat \ {0}
  /\ \A ids \in SUBSET (DOMAIN a.needles) : TeddyBuild(a.needles, ids) # NoTeddy

ASSUME ArtifactAssumption == \A i \in DOMAIN Artifacts : ArtifactTypes(Artifacts[i])

\* What a field of an event holds is bytes.
ASSUME EventAssumption ==
  \A ev \in Events : \A n \in DOMAIN ev : ev[n] \in Seq(Byte)

\* rule_full_mask.
FullMask(d, r) == IF d.clauses = <<>> THEN {} ELSE 1 .. d.clauses[r]

\* fwit_holds.
WitnessHolds(d, view, w) ==
  LET v == view[w.field]
  IN /\ v \notin {NoVal, <<>>}
     /\ IF w.op = "cidr" THEN v \in d.cidrs[w.ival] ELSE NumHolds(w.op, v, w.ival)

\* The atoms of a clause: its field witnesses and the needles posted for it.
Witnessed(d, view, r, c) ==
  \E w \in ToSet(d.fwit) : w.rule = r /\ w.clause = c /\ WitnessHolds(d, view, w)

Posted(d, view, r, c) ==
  \E k \in DOMAIN d.needles : \E p \in ToSet(Refs(d, k)) :
    /\ p.rule = r /\ p.clause = c
    /\ \E f \in DOMAIN d.fields :
         /\ p.field \in {AnyField, f}
         /\ view[f] # NoVal /\ Occurs(view[f], d.needles[k])

\* The clauses of a rule that have an atom holding on an event.
ClausesHolding(d, view, r) ==
  {c \in FullMask(d, r) : Witnessed(d, view, r, c) \/ Posted(d, view, r, c)}

\* The rules the prefilter is to keep: those always verified, and those each of whose
\* clauses has an atom holding on the event.
Candidate(d, view, r) ==
  \/ r \in ToSet(d.litav)
  \/ FullMask(d, r) # {} /\ ClausesHolding(d, view, r) = FullMask(d, r)

\* The artifact has something to filter by.
Indexed(d) == d.needles # <<>> \/ d.fwit # <<>>

\* What the compiler owes the prefilter: an event a rule matches has an atom of each of
\* its clauses.
LiteralsNecessary(d) ==
  Indexed(d) => \A ev \in Events, r \in DOMAIN d.rules :
                  Matches(d, ev, r) => Candidate(d, FieldsOf(d, ev), r)

\* What the compiler promises of a database, beyond what the loader checks: a
\* selection's predicates come group by group, keys are distinct, needles are of two
\* bytes or more and posted where their rules name a field, and, if there is an index,
\* every event a rule matches has an atom of each of its clauses.
AsPromised(d) ==
  Grouped(d) /\ DistinctKeys(d) /\ AllWide(d) /\ PostedWhereNamed(d) /\ LiteralsNecessary(d)

\* The buckets an event may have, one for each field it is routed by and the
\* always-verify one, fit in the array (sigma_eval_run: 16 for 9 + 1).
ASSUME RouteAssumption ==
  MaxRoute \in Nat /\ MaxRoute > Len(RouteNames) /\ CondStackMax \in Nat
  /\ MaxHitsOf \subseteq Nat

VARIABLES
  db,          \* the database loaded, or NoDb
  mode,        \* prefilter_on: 0 off, 1 large buckets only, 2 forced
  memo,        \* vptr, vlen, vstate: field id |-> value, or Unresolved
  gen,         \* gen
  ruleGen,     \* rule |-> the generation its mask was stamped with
  ruleMask,    \* rule |-> the clauses credited, a set
  evalDone,    \* rule |-> the generation it was last verified in
  tscr,        \* the scratch of the literal scan
  call,        \* history: the last evaluation
  pre,         \* history: the buckets it ran through the prefilter, or <<>>
  marks,       \* history: the <<field, needle>> pairs the scan reported
  fired, out   \* what it returned

scratch == <<mode, memo, gen, ruleGen, ruleMask, evalDone, tscr>>
result  == <<call, pre, marks, fired, out>>
vars    == <<db, scratch, result>>

\* The databases of the artifacts that load.
Dbs == {Loaded(a) : a \in {b \in ToSet(Artifacts) : LoadResult(b) = "ok"}}

ASSUME NoDbAssumption == NoDb \notin Dbs

Spec0 == INSTANCE SigmaSpec

Rules == DOMAIN db.rules

-----------------------------------------------------------------------------
\* What the caller's field callback and the memo give for the fields of the
\* database: an event's fields are asked for once.
View(m, ev) ==
  [f \in DOMAIN db.fields |->
     IF m[f] = Unresolved THEN Value(ev, db.fields[f]) ELSE m[f]]

\* Mutant of ClearMemo: the memo of the last event is kept.
ClearMemoNot(m) == m

\* sigma_eval_run and eval_linear forget the last event's values.
ClearMemo(m) == [f \in DOMAIN m |-> Unresolved]

Remember(m, view, read) == [f \in DOMAIN m |-> IF f \in read THEN view[f] ELSE m[f]]

\* Mutant of BumpGen: the wrap keeps the stamps.
BumpGenStale(stamps) == [stamps EXCEPT !.gen = IF @ = GenMax THEN 1 ELSE @ + 1]

\* bump_eval_gen: generation 0 is "never", so the counter wraps to 1 over cleared
\* stamps.
BumpGen(stamps) ==
  IF stamps.gen < GenMax
  THEN [stamps EXCEPT !.gen = @ + 1]
  ELSE [ gen      |-> 1,
         ruleGen  |-> [r \in DOMAIN stamps.ruleGen |-> 0],
         evalDone |-> [r \in DOMAIN stamps.evalDone |-> 0] ]

Stamps == [gen |-> gen, ruleGen |-> ruleGen, evalDone |-> evalDone]

-----------------------------------------------------------------------------
\* The tokens of an event in the order they are looked up.  The category comes
\* from the memo when a rule uses the field, the others straight from the callback.
RouteToken(view, ev, i) ==
  IF i = 1 /\ db.catField # NoField THEN view[db.catField]
  ELSE Value(ev, RouteNames[i])

Routed(view, ev) ==
  \E i \in DOMAIN RouteNames : RouteToken(view, ev, i) \notin {NoVal, <<>>}

AddBucket(sel, b) ==
  IF b = NoBucket \/ b \in ToSet(sel) \/ Len(sel) >= MaxRoute THEN sel
  ELSE Append(sel, b)

\* The bucket of token i, if the event has one.
AddRoute(view, ev, sel, i) ==
  LET w == RouteToken(view, ev, i)
  IN IF w \in {NoVal, <<>>} THEN sel ELSE AddBucket(sel, IndexIn(db.keys, w))

\* The buckets of an event: those of its tokens, then the always-verify one.
SelectBuckets(view, ev) ==
  AddBucket(FoldLeft(LAMBDA sel, i : AddRoute(view, ev, sel, i), <<>>,
                     [i \in DOMAIN RouteNames |-> i]),
            db.avBucket)

\* The prefilter is worth its setup for one large bucket, or when forced, and runs
\* when it is on and the artifact has something to filter by.
Prefilters(sel) ==
  /\ mode # 0
  /\ Indexed(db)
  /\ \E b \in ToSet(sel) \ {db.avBucket} :
       mode = 2 \/ db.buckets[b].count >= MinBucket

-----------------------------------------------------------------------------
\* scan_field, and a scanner for the field: the fields some selected bucket uses
\* and some needle is posted to.
ScannedFields(sel) ==
  {f \in DOMAIN db.fields :
     /\ db.fieldTeddy[f] # NoTeddy
     /\ \E b \in ToSet(sel) : f \in db.bucketFields[b]}

\* The scan of field f, if it is scanned and the event has it.
ScanField(view, sel, acc, f) ==
  IF f \notin ScannedFields(sel) \/ view[f] = NoVal THEN acc
  ELSE LET c == TeddyConfirm(db.fieldTeddy[f], view[f], acc.scr)
       IN [ scr   |-> c.scr,
            marks |-> acc.marks \o [i \in DOMAIN c.marks |-> <<f, c.marks[i]>>] ]

\* The scans of an event, field by field, each a generation of its own.
Scan(view, sel) ==
  FoldLeft(LAMBDA acc, f : ScanField(view, sel, acc, f),
           [scr |-> tscr, marks |-> <<>>], [f \in DOMAIN db.fields |-> f])

\* The <<rule, clause>> pairs that the field witnesses and, by mark_postings, the
\* needles found credit: a needle counts in the field its posting names.
Credits(view, found) ==
  {<<w.rule, w.clause>> : w \in {v \in ToSet(db.fwit) : WitnessHolds(db, view, v)}}
    \cup UNION {{<<p.rule, p.clause>> :
                    p \in {q \in ToSet(Refs(db, m[2])) : q.field \in {AnyField, m[1]}}}
                  : m \in found}

\* Mutant of CreditedMask: pf_touch keeps the mask of an older event.
CreditedMaskKept(s, r, credits) ==
  IF r \in ToSet(db.litav) THEN FullMask(db, r)
  ELSE ruleMask[r] \cup {c[2] : c \in {d \in credits : d[1] = r}}

\* A rule's mask after the prefilter.  Always-verify rules get their full mask;
\* pf_touch empties the mask of an older generation before the first credit.
CreditedMask(s, r, credits) ==
  LET clauses == {c[2] : c \in {d \in credits : d[1] = r}}
  IN IF r \in ToSet(db.litav) THEN FullMask(db, r)
     ELSE IF s.ruleGen[r] = s.gen THEN ruleMask[r] \cup clauses
     ELSE IF clauses # {} THEN clauses ELSE ruleMask[r]

\* The rules that carry this event's stamp after prefilter_candidates.
Stamped(s, credits) ==
  ToSet(db.litav) \cup {c[1] : c \in credits} \cup {r \in Rules : s.ruleGen[r] = s.gen}

\* prefilter_candidates and pf_is_candidate: the masks and their stamps, and the
\* rules restricted to.
Prefilter(view, sel, s) ==
  LET scan    == Scan(view, sel)
      credits == Credits(view, ToSet(scan.marks))
      stamped == Stamped(s, credits)
      mask    == [r \in Rules |-> CreditedMask(s, r, credits)]
  IN [ scr |-> scan.scr, marks |-> scan.marks, stamped |-> stamped, mask |-> mask,
       candidates |-> {r \in stamped : mask[r] = FullMask(db, r)} ]

-----------------------------------------------------------------------------
\* Mutant of Verify: eval_done is not looked at.
VerifyAgain(s, order, allowed) == SelectSeq(order, LAMBDA r : r \in allowed)

\* eval_one_rule on a rule that is allowed, once per event.
VerifyOne(s, allowed, acc, r) ==
  IF r \notin allowed \/ s.evalDone[r] = s.gen \/ r \in ToSet(acc) THEN acc
  ELSE Append(acc, r)

\* The rules of a list that are verified, each where it comes first.
Verify(s, order, allowed) ==
  FoldLeft(LAMBDA acc, r : VerifyOne(s, allowed, acc, r), <<>>, order)

\* The rules of the buckets, bucket by bucket.
BucketRules(sel) ==
  FoldLeft(LAMBDA acc, b : acc \o Slice(db.bucketIdx, db.buckets[b]), <<>>, sel)

\* The verdicts on the rules to be verified, and the fields they read.
Verdicts(view, s, order, allowed) ==
  LET verified   == Verify(s, order, allowed)
      verdict(r) == RuleMatch(db, view, db.rules[r])
  IN [ verified |-> ToSet(verified),
       hits     |-> FoldLeft(LAMBDA acc, r : IF verdict(r).ok THEN Append(acc, r) ELSE acc,
                             <<>>, verified),
       reads    |-> UNION {verdict(r).reads : r \in ToSet(verified)} ]

\* The end of an evaluation: what was verified, what it fired, what fits in out,
\* and the memo of the fields that were read.
Finish(view, s, order, allowed, max, read) ==
  \E v \in {Verdicts(view, s, order, allowed)} :
    /\ gen' = s.gen
    /\ evalDone' = [r \in Rules |-> IF r \in v.verified THEN s.gen ELSE s.evalDone[r]]
    /\ memo' = Remember(ClearMemo(memo), view, read \cup v.reads)
    /\ fired' = Len(v.hits)
    /\ out' = SubSeq(v.hits, 1, IF Len(v.hits) < max THEN Len(v.hits) ELSE max)

\* sigma_eval_run on the buckets of an event, prefiltered.
RunPrefiltered(view, sel, max) ==
  /\ Prefilters(sel)
  /\ \E s \in {BumpGen(Stamps)} : \E p \in {Prefilter(view, sel, s)} :
       /\ ruleMask' = p.mask
       /\ ruleGen' = [r \in Rules |-> IF r \in p.stamped THEN s.gen ELSE s.ruleGen[r]]
       /\ tscr' = p.scr
       /\ Finish(view, s, BucketRules(sel), p.candidates, max,
                 {db.catField} \cup ScannedFields(sel) \cup {w.field : w \in ToSet(db.fwit)})
       /\ marks' = p.marks
  /\ pre' = sel

\* sigma_eval_run on the buckets of an event, in full.
RunBuckets(view, sel, max) ==
  /\ ~Prefilters(sel)
  /\ \E s \in {BumpGen(Stamps)} :
       /\ ruleGen' = s.ruleGen
       /\ Finish(view, s, BucketRules(sel), Rules, max, {db.catField})
  /\ pre' = <<>> /\ marks' = <<>>
  /\ UNCHANGED <<ruleMask, tscr>>

\* Every rule in table order: eval_linear, and sigma_eval_run without buckets or
\* route fields.
RunAllRules(view, max, read) ==
  /\ \E s \in {BumpGen(Stamps)} :
       ruleGen' = s.ruleGen /\ Finish(view, s, [i \in Rules |-> i], Rules, max, read)
  /\ pre' = <<>> /\ marks' = <<>>
  /\ UNCHANGED <<ruleMask, tscr>>

\* sigma_eval_run.
Run(ev, max) ==
  LET view   == View(ClearMemo(memo), ev)
      routed == db.keys # <<>> /\ Routed(view, ev)
  IN /\ db # NoDb
     /\ call' = [event |-> ev, linear |-> FALSE, max |-> max]
     /\ \/ /\ routed
           /\ \E sel \in {SelectBuckets(view, ev)} :
                RunPrefiltered(view, sel, max) \/ RunBuckets(view, sel, max)
        \/ ~routed /\ RunAllRules(view, max, {db.catField})
     /\ UNCHANGED <<db, mode>>

\* sigma_eval_run_linear.
RunLinear(ev, max) ==
  /\ db # NoDb
  /\ call' = [event |-> ev, linear |-> TRUE, max |-> max]
  /\ RunAllRules(View(ClearMemo(memo), ev), max, {})
  /\ UNCHANGED <<db, mode>>

-----------------------------------------------------------------------------
\* No database, no scratch, nothing evaluated.
Init ==
  /\ db = NoDb /\ mode = 1 /\ memo = <<>> /\ gen = 0
  /\ ruleGen = <<>> /\ ruleMask = <<>> /\ evalDone = <<>>
  /\ tscr = NewScratch(0)
  /\ call = NoCall /\ pre = <<>> /\ marks = <<>> /\ fired = 0 /\ out = <<>>

NoResult == call' = NoCall /\ pre' = <<>> /\ marks' = <<>> /\ fired' = 0 /\ out' = <<>>

\* The scratch for f fields, r rules and n needles.
Create(f, r, n) ==
  /\ mode' = 1
  /\ memo' = [i \in 1 .. f |-> Unresolved]
  /\ gen' = 0
  /\ ruleGen' = [i \in 1 .. r |-> 0]
  /\ ruleMask' = [i \in 1 .. r |-> {}]
  /\ evalDone' = [i \in 1 .. r |-> 0]
  /\ tscr' = NewScratch(n)
  /\ NoResult

\* sigma_db_load_buffer and, when it succeeds, sigma_eval_create.
Load(i) ==
  /\ db = NoDb
  /\ LoadResult(Artifacts[i]) = "ok"
  /\ db' = Loaded(Artifacts[i])
  /\ Create(Len(Artifacts[i].fields), Len(Artifacts[i].rules), Len(Artifacts[i].needles))

\* sigma_eval_free and sigma_db_free.
Free == db # NoDb /\ db' = NoDb /\ Create(0, 0, 0)

\* sigma_eval_set_prefilter.
SetPrefilter(m) ==
  /\ db # NoDb
  /\ mode' = m
  /\ UNCHANGED <<db, memo, gen, ruleGen, ruleMask, evalDone, tscr, result>>

Next ==
  \/ \E i \in DOMAIN Artifacts : Load(i)
  \/ Free
  \/ \E m \in 0 .. 2 : SetPrefilter(m)
  \/ \E ev \in Events, max \in MaxHitsOf : Run(ev, max) \/ RunLinear(ev, max)

Spec == Init /\ [][Next]_vars

-----------------------------------------------------------------------------
\* The view of the event last evaluated, without the memo.
EventView == FieldsOf(db, call.event)

\* The rules the last evaluation restricted to candidates.
Gated == IF pre = <<>> THEN {} ELSE ToSet(BucketRules(pre))

\* The types.  A mask credits clauses the rule has, so it can become complete
\* (rule_full_mask; the loader's check of clause indexes).
TypeOK ==
  /\ db \in {NoDb} \cup Dbs
  /\ mode \in 0 .. 2
  /\ gen \in 0 .. GenMax /\ tscr.gen \in 0 .. GenMax
  /\ call \in {NoCall} \cup Spec0!Calls
  /\ IF db = NoDb THEN memo = <<>> /\ ruleGen = <<>> /\ evalDone = <<>>
     ELSE /\ DOMAIN memo = DOMAIN db.fields
          /\ \A r \in Rules : /\ ruleMask[r] \subseteq FullMask(db, r)
                             /\ ruleGen[r] \in 0 .. GenMax
                             /\ evalDone[r] \in 0 .. GenMax

\* No stamp of a rule is ahead of the generation, so that no event to come, before
\* or after the counter wraps around, takes an old stamp for its own (bump_eval_gen).
StampsBehind ==
  /\ \A r \in DOMAIN ruleGen : ruleGen[r] <= gen
  /\ \A r \in DOMAIN evalDone : evalDone[r] <= gen

\* Nor is a needle's stamp ahead of the scans' (sigma_teddy_scratch_next).
NeedleStampsBehind == \A k \in DOMAIN tscr.stamp : tscr.stamp[k] <= tscr.gen

\* Every value remembered is the last event's (the reset of vstate).
MemoIsEvent ==
  call # NoCall => \A f \in DOMAIN memo : memo[f] \in {Unresolved, EventView[f]}

\* The scan reports, once, exactly the needles that occur in a field that is
\* scanned for them, of the fields the rules to be evaluated name: hash collisions add
\* none, skipped chunks and stamps of earlier scans lose none (teddy_confirm).
NeedlesExact ==
  pre # <<>> =>
    LET named(f) == AnyFieldPosted(db) \/ \E b \in ToSet(pre) : f \in FieldsOfBucket(db, b)
    IN /\ Cardinality(ToSet(marks)) = Len(marks)
       /\ ToSet(marks) =
            UNION {{<<f, k>> : k \in {n \in Sought(db, f) : /\ EventView[f] # NoVal
                                                          /\ Occurs(EventView[f], db.needles[n])}}
                     : f \in {g \in DOMAIN db.fields : named(g)}}

\* Of the rules restricted to candidates, those verified are exactly the
\* always-verify ones and those each of whose clauses has an atom holding on this
\* event; what earlier events credited counts for nothing.
CandidatesExact ==
  \A r \in Gated : evalDone[r] = gen <=> Candidate(db, EventView, r)

\* What sigma_format.c promises of every artifact it accepts: the prefilter never
\* prunes a rule that could match.
PruneIsSound ==
  \A r \in Gated : Matches(db, call.event, r) => evalDone[r] = gen

\* The matcher returns what SigmaSpec says, whatever it evaluated before and
\* whether or not it prefilters.
MatchesSpec == Spec0!Spec
=============================================================================
