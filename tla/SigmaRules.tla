----------------------------- MODULE SigmaRules -----------------------------
(***************************************************************************)
(* Compiled rules and their evaluation in sigma_match.c: predicates over   *)
(* field values, selections (AND of groups of OR), and conditions in       *)
(* reverse Polish notation, evaluated lazily.                              *)
(*                                                                         *)
(* Tables are sequences and an id is a position in one; a slice is         *)
(* [start, count].  A view gives each field id its value on the event at   *)
(* hand, a word or NoVal.                                                  *)
(***************************************************************************)
EXTENDS SigmaTeddy

CONSTANTS
  NoVal,         \* the event has no such field
  MaxInt,        \* INT64_MAX
  Regex,         \* external (PCRE2): pattern |-> the words it matches
  CondStackMax   \* SIGMA_COND_STACK_MAX

NoId == 0  \* SIGMA_NO_VALUE

Slice(table, s) == SubSeq(table, s.start, s.start + s.count - 1)

NumericOps == {"gt", "gte", "lt", "lte", "numeq"}
StringOps  == {"eq", "contains", "startswith", "endswith"}

Digits == 48 .. 57

\* The digits a word has from position p on, up to the first other byte.
DigitRun(w, p) ==
  LET last == CHOOSE q \in p - 1 .. Len(w) :
                /\ \A i \in p .. q : w[i] \in Digits
                /\ q < Len(w) => w[q + 1] \notin Digits
  IN SubSeq(w, p, last)

\* sg_to_i64: a leading integer, saturated; no integer without a digit.
ToInt(w) ==
  LET signed == w # <<>> /\ w[1] \in {43, 45}
      run    == DigitRun(w, IF signed THEN 2 ELSE 1)
      mag    == FoldLeft(LAMBDA m, c : 10 * m + (c - 48), 0, run)
  IN IF run = <<>> THEN {}
     ELSE {IF signed /\ w[1] = 45
           THEN -(IF mag > MaxInt THEN MaxInt + 1 ELSE mag)
           ELSE IF mag > MaxInt THEN MaxInt ELSE mag}

NumHolds(op, w, k) ==
  \E n \in ToInt(w) :
    \/ op = "gt"    /\ n > k
    \/ op = "gte"   /\ n >= k
    \/ op = "lt"    /\ n < k
    \/ op = "lte"   /\ n <= k
    \/ op = "numeq" /\ n = k

\* sg_eq and, for the substring operators, sg_eq at a position.
Equal(cs, v, w) == IF cs THEN v = w ELSE SameWord(v, w)

EqualAt(cs, v, p, w) ==
  p >= 1 /\ p + Len(w) - 1 <= Len(v) /\ Equal(cs, SubSeq(v, p, p + Len(w) - 1), w)

StrHolds(op, cs, v, w) ==
  \/ op = "eq"         /\ Equal(cs, v, w)
  \/ op = "contains"   /\ \E p \in 1 .. Len(v) + 1 : EqualAt(cs, v, p, w)
  \/ op = "startswith" /\ EqualAt(cs, v, 1, w)
  \/ op = "endswith"   /\ EqualAt(cs, v, Len(v) - Len(w) + 1, w)

\* The operand of a string predicate: another field's value, or a constant.
Operand(db, view, p) ==
  IF p.ref THEN view[p.value]
  ELSE IF p.value \in DOMAIN db.values THEN db.values[p.value] ELSE NoVal

\* What predicate i says before its negation.  db.re holds the predicates whose
\* pattern compiled.
PredHolds(db, view, i) ==
  LET p == db.preds[i]
      v == view[p.field]
      o == Operand(db, view, p)
  IN /\ v # NoVal
     /\ \/ p.op = "exists" /\ v # <<>>
        \/ p.op \in NumericOps /\ NumHolds(p.op, v, p.ival)
        \/ p.op = "cidr" /\ p.value \in DOMAIN db.cidrs /\ v \in db.cidrs[p.value]
        \/ p.op = "re" /\ i \in db.re /\ v \in Regex[db.values[p.value]]
        \/ p.op \in StringOps /\ o # NoVal /\ StrHolds(p.op, p.cs, v, o)

\* pred_match.  An absent field satisfies a negated predicate.
PredMatch(db, view, i) == PredHolds(db, view, i) # db.preds[i].neg

\* The fields pred_match asks for.
PredReads(db, view, i) ==
  LET p == db.preds[i]
  IN {p.field} \cup IF p.ref /\ p.op \in StringOps /\ view[p.field] # NoVal
                    THEN {p.value} ELSE {}

\* sel_match on one predicate, in group order.  Once a group is true its other
\* predicates are skipped; the first group that is not true ends the selection.
SelStep(db, view, acc, i) ==
  LET same == db.preds[i].group = acc.group
  IN IF acc.failed \/ (same /\ acc.ok) THEN acc
     ELSE IF ~same /\ ~acc.ok /\ acc.group # 0
     THEN [acc EXCEPT !.failed = TRUE]
     ELSE [acc EXCEPT !.group = db.preds[i].group,
                      !.ok    = PredMatch(db, view, i),
                      !.reads = @ \cup PredReads(db, view, i)]

\* sel_match: the verdict on a selection and the fields it read.  No predicate, no
\* match.
SelMatch(db, view, s) ==
  FoldLeft(LAMBDA acc, i : SelStep(db, view, acc, i),
           [ok |-> FALSE, group |-> 0, failed |-> FALSE, reads |-> {}],
           [k \in 1 .. s.count |-> s.start + k - 1])

\* Verdict m, after the fields in reads were read; and verdict m, perhaps negated.
After(reads, m)  == [ok |-> m.ok, reads |-> reads \cup m.reads]
Negated(neg, m) == [ok |-> m.ok # neg, reads |-> m.reads]

\* A cell of the RPN stack is a selection not yet run, perhaps negated; a cell
\* already decided is one without a selection, and its value is in neg.
Cell(sel, neg) == [sel |-> sel, neg |-> neg]

\* rpn_force.
RpnForce(db, view, r, c) ==
  IF c.sel = 0 THEN [ok |-> c.neg, reads |-> {}]
  ELSE Negated(c.neg, SelMatch(db, view, db.sels[r.sels.start + c.sel - 1]))

\* AND and OR force the left cell and the right one only if the left does not
\* decide.
Combine(kind, left, right) ==
  IF left.ok = (kind = "or") THEN left ELSE After(left.reads, right)

\* The two top cells become one, decided.
Reduce(acc, m) ==
  [acc EXCEPT !.stack = Append(SubSeq(@, 1, Len(@) - 2), Cell(0, m.ok)),
              !.reads = @ \cup m.reads]

\* One token of the condition; a malformed one ends in bad.
RpnStep(db, view, r, acc, tok) ==
  LET n == Len(acc.stack)
  IN IF \/ acc.bad
        \/ tok.kind = "sel" /\ (n >= CondStackMax \/ tok.sel > r.sels.count)
        \/ tok.kind = "not" /\ n < 1
        \/ tok.kind \in {"and", "or"} /\ n < 2
     THEN [acc EXCEPT !.bad = TRUE]
     ELSE CASE tok.kind = "sel" ->
                 [acc EXCEPT !.stack = Append(@, Cell(tok.sel, FALSE))]
            [] tok.kind = "not" -> [acc EXCEPT !.stack[n].neg = ~@]
            [] OTHER ->
                 Reduce(acc, Combine(tok.kind, RpnForce(db, view, r, acc.stack[n - 1]),
                                               RpnForce(db, view, r, acc.stack[n])))

\* The verdict once the tokens are consumed: that of the one cell left.
RpnEnd(db, view, r, end) ==
  IF end.bad \/ Len(end.stack) # 1 THEN [ok |-> FALSE, reads |-> end.reads]
  ELSE After(end.reads, RpnForce(db, view, r, end.stack[1]))

\* The condition of a rule, run over its tokens.
RunCond(db, view, r) ==
  RpnEnd(db, view, r,
         FoldLeft(LAMBDA acc, tok : RpnStep(db, view, r, acc, tok),
                  [stack |-> <<>>, reads |-> {}, bad |-> FALSE],
                  Slice(db.cond, r.cond)))

\* Without a condition: every selection of the rule, up to the first that fails.
RunAll(db, view, r) ==
  FoldLeft(LAMBDA acc, s : IF acc.ok THEN After(acc.reads, SelMatch(db, view, s)) ELSE acc,
           [ok |-> r.sels.count > 0, reads |-> {}], Slice(db.sels, r.sels))

\* rule_match.
RuleMatch(db, view, r) ==
  IF r.cond.count = 0 THEN RunAll(db, view, r) ELSE RunCond(db, view, r)
=============================================================================
