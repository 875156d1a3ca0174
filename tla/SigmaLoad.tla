------------------------------ MODULE SigmaLoad -----------------------------
(***************************************************************************)
(* Loading a compiled rule database: what sigma_db_load_buffer accepts,    *)
(* and what sigma_db_finalize derives from it.                             *)
(*                                                                         *)
(* An artifact is a record of tables.  frame is the verdict of the layer   *)
(* below the tables (magic, version, size, sections, checksum, and string  *)
(* references into the pool), "ok" or its error.  A string reference is    *)
(* the word it stands for.                                                 *)
(***************************************************************************)
EXTENDS SigmaMeaning

CONSTANTS
  MaxClauses,  \* SIGMA_MAX_CLAUSES
  NoTeddy      \* the null scanner

AnyField == 0        \* SIGMA_LITREF_ANY_FIELD
NoBucket == 0
NoField  == 0

Within(table, s) == s.start >= 1 /\ s.start + s.count - 1 <= Len(table)

Refs(a, k) == Slice(a.postRefs, a.posts[k])

\* A FIELDREF operand is a field, a CIDR one a network, any other a value or none.
PredsOk(a) ==
  \A i \in DOMAIN a.preds :
    LET p == a.preds[i]
    IN /\ p.field \in DOMAIN a.fields
       /\ \/ p.ref /\ p.value \in DOMAIN a.fields
          \/ ~p.ref /\ p.op = "cidr" /\ p.value \in DOMAIN a.cidrs
          \/ ~p.ref /\ p.op # "cidr" /\ p.value \in DOMAIN a.values \cup {NoId}

RulesOk(a) ==
  /\ \A i \in DOMAIN a.sels : Within(a.preds, a.sels[i])
  /\ \A i \in DOMAIN a.rules :
       Within(a.sels, a.rules[i].sels) /\ Within(a.cond, a.rules[i].cond)
  /\ \A i \in DOMAIN a.cond : a.cond[i].kind \in {"sel", "and", "or", "not"}

\* At most one bucket is the always-verify one, of the empty key.
BucketsOk(a) ==
  /\ \A b \in DOMAIN a.keys : Within(a.bucketIdx, a.buckets[b])
  /\ \A b, c \in DOMAIN a.keys : a.keys[b] = <<>> /\ a.keys[c] = <<>> => b = c
  /\ \A i \in DOMAIN a.bucketIdx : a.bucketIdx[i] \in DOMAIN a.rules

\* Mutant of ClauseOk: the clause is checked against the width of the mask only.
ClauseOkByWidth(a, rule, clause) ==
  clause <= MaxClauses /\ rule \in DOMAIN a.clauses

\* The clause is one of the rule's.
ClauseOk(a, rule, clause) ==
  clause <= MaxClauses /\ rule \in DOMAIN a.clauses /\ clause <= a.clauses[rule]

\* The literal index.  clauses is empty when the artifact has no clause table.
LitidxOk(a) ==
  /\ \A k \in DOMAIN a.needles :
       a.needles[k] # <<>> /\ Within(a.postRefs, a.posts[k])
  /\ \A i \in DOMAIN a.postRefs :
       LET r == a.postRefs[i]
       IN /\ r.rule \in DOMAIN a.rules
          /\ r.field \in DOMAIN a.fields \cup {AnyField}
          /\ ClauseOk(a, r.rule, r.clause)
  /\ \A i \in DOMAIN a.litav :
       /\ a.litav[i] \in DOMAIN a.rules
       /\ a.clauses # <<>> => a.clauses[a.litav[i]] = 0
  /\ \A r \in DOMAIN a.clauses : a.clauses[r] <= MaxClauses

\* Version 4 has no field witnesses: what follows its header is not read.
Witnesses(a) == IF a.version = 4 THEN <<>> ELSE a.fwit

FwitOk(a) ==
  \A i \in DOMAIN Witnesses(a) :
    LET w == a.fwit[i]
    IN /\ w.rule \in DOMAIN a.rules
       /\ w.field \in DOMAIN a.fields
       /\ ClauseOk(a, w.rule, w.clause)
       /\ \/ w.op = "cidr" /\ w.ival \in DOMAIN a.cidrs
          \/ w.op \in NumericOps

\* The patterns of sigma_db_finalize: one outside the values fails the load, one
\* that does not compile only disables its predicate.
Patterns(a) == {i \in DOMAIN a.preds : a.preds[i].op = "re"}

PatternsOk(a) == \A i \in Patterns(a) : a.preds[i].value \in DOMAIN a.values

Compiled(a) == {i \in Patterns(a) : a.values[a.preds[i].value] \in DOMAIN Regex}

\* The error of sigma_db_load_buffer, or "ok".
LoadResult(a) ==
  CASE a.frame # "ok" -> a.frame
    [] a.frame = "ok" /\ ~(PredsOk(a) /\ RulesOk(a) /\ BucketsOk(a)
                           /\ LitidxOk(a) /\ FwitOk(a)) -> "range"
    [] OTHER -> IF PatternsOk(a) THEN "ok" ELSE "regex"

\* The position of w in table, or 0.
IndexIn(table, w) ==
  IF \E i \in DOMAIN table : table[i] = w
  THEN CHOOSE i \in DOMAIN table : table[i] = w /\ \A j \in 1 .. i - 1 : table[j] # w
  ELSE 0

\* An unscoped posting disables the narrowing to fields.
AnyFieldPosted(a) == \E i \in DOMAIN a.postRefs : a.postRefs[i].field = AnyField

\* build_bucket_fields: the fields the predicates of a rule name, and a bucket's rules.
FieldsOfRule(a, r) ==
  {p.field : p \in UNION {ToSet(Slice(a.preds, s)) :
                            s \in ToSet(Slice(a.sels, a.rules[r].sels))}}

FieldsOfBucket(a, b) ==
  UNION {FieldsOfRule(a, r) : r \in ToSet(Slice(a.bucketIdx, a.buckets[b]))}

\* The needles posted to a field.
PostedTo(a, f) ==
  {k \in DOMAIN a.needles : \E r \in ToSet(Refs(a, k)) : r.field = f}

\* The needles a field is scanned for.  Where a needle is posted to no field in
\* particular, or none is posted at all, there are no scanners per field, and every
\* field is scanned for all of them.
Sought(a, f) ==
  IF AnyFieldPosted(a) \/ a.postRefs = <<>> THEN DOMAIN a.needles ELSE PostedTo(a, f)

\* Mutant of TeddyOf: needles posted to no field in particular are in no scanner.
TeddyOfScoped(a, f) ==
  LET ids == PostedTo(a, f)
  IN IF ids = {} THEN NoTeddy ELSE TeddyBuild(a.needles, ids)

\* build_field_teddy: one scanner per field, or the full one for all.
TeddyOf(a, f) ==
  LET ids == Sought(a, f)
  IN IF ids = {} THEN NoTeddy ELSE TeddyBuild(a.needles, ids)

\* The database of an accepted artifact.  Where the narrowing is disabled a bucket
\* uses every field and every field has the full scanner.
Loaded(a) ==
  [ fields |-> a.fields, values |-> a.values, cidrs |-> a.cidrs,
    preds |-> a.preds, sels |-> a.sels, cond |-> a.cond, rules |-> a.rules,
    keys |-> a.keys, buckets |-> a.buckets, bucketIdx |-> a.bucketIdx,
    needles |-> a.needles, posts |-> a.posts, postRefs |-> a.postRefs,
    litav |-> a.litav, clauses |-> a.clauses, fwit |-> Witnesses(a),
    re |-> Compiled(a),
    avBucket |-> IndexIn(a.keys, <<>>),
    catField |-> IF a.keys = <<>> THEN NoField ELSE IndexIn(a.fields, "event.category"),
    bucketFields |-> [b \in DOMAIN a.keys |->
       IF AnyFieldPosted(a) \/ a.needles = <<>> THEN DOMAIN a.fields
       ELSE FieldsOfBucket(a, b)],
    fieldTeddy |-> [f \in DOMAIN a.fields |-> TeddyOf(a, f)] ]

\* What the loader does not check of a compiled database: every needle has two bytes or
\* more, and is posted, for a rule, to a field that the rule names.
AllWide(d) == \A k \in DOMAIN d.needles : Len(d.needles[k]) >= 2

PostedWhereNamed(d) ==
  AnyFieldPosted(d) \/ \A k \in DOMAIN d.needles : \A p \in ToSet(Refs(d, k)) :
                         p.field \in FieldsOfRule(d, p.rule)

\* Nor that the predicates of a selection are "contiguous and grouped by the builder"
\* (sel_match), and that no two buckets have the same key.
Grouped(d) ==
  \A i \in DOMAIN d.sels :
    LET s == d.sels[i]
    IN \A j, k, l \in s.start .. s.start + s.count - 1 :
         j < k /\ k < l /\ d.preds[j].group = d.preds[l].group =>
           d.preds[j].group = d.preds[k].group

DistinctKeys(d) == \A b, c \in DOMAIN d.keys : d.keys[b] = d.keys[c] => b = c
=============================================================================
