---------------------------- MODULE SigmaMeaning ----------------------------
(***************************************************************************)
(* What a compiled database says of an event, without regard to how the    *)
(* matcher finds out: which rules concern it, and which of their           *)
(* conditions hold on it, each evaluated in full.                          *)
(***************************************************************************)
EXTENDS SigmaRules

Value(ev, name) == IF name \in DOMAIN ev THEN ev[name] ELSE NoVal

FieldsOf(d, ev) == [f \in DOMAIN d.fields |-> Value(ev, d.fields[f])]

\* AND across the groups of a selection, OR within one.
SelHolds(d, view, s) ==
  LET ids == s.start .. s.start + s.count - 1
  IN /\ ids # {}
     /\ \A i \in ids : \E j \in ids :
          d.preds[j].group = d.preds[i].group /\ PredMatch(d, view, j)

\* The depth of the stack after one more token; below zero once a token underflows,
\* overflows or names no selection, and too far below to come back to one.
DepthAfter(toks, nsels, depth, t) ==
  CASE t.kind = "sel" /\ depth < CondStackMax /\ t.sel <= nsels -> depth + 1
    [] t.kind = "not" /\ depth >= 1 -> depth
    [] t.kind \in {"and", "or"} /\ depth >= 2 -> depth - 1
    [] OTHER -> -Len(toks) - 1

\* The tokens leave one value.
WellFormed(toks, nsels) ==
  FoldLeft(LAMBDA depth, t : DepthAfter(toks, nsels, depth, t), 0, toks) = 1

\* The stack of booleans after one more token.
Evaluated(truth, stack, t) ==
  LET n == Len(stack)
  IN CASE t.kind = "sel" -> Append(stack, truth[t.sel])
       [] t.kind = "not" -> [stack EXCEPT ![n] = ~@]
       [] t.kind = "and" -> Append(SubSeq(stack, 1, n - 2), stack[n - 1] /\ stack[n])
       [] t.kind = "or" -> Append(SubSeq(stack, 1, n - 2), stack[n - 1] \/ stack[n])

\* The condition over the truth of all selections, on a stack of booleans.
CondHolds(toks, truth) ==
  FoldLeft(LAMBDA stack, t : Evaluated(truth, stack, t), <<>>, toks) = <<TRUE>>

Matches(d, ev, r) ==
  LET rule  == d.rules[r]
      truth == [k \in 1 .. rule.sels.count |->
                  SelHolds(d, FieldsOf(d, ev), d.sels[rule.sels.start + k - 1])]
  IN IF rule.cond.count = 0
     THEN truth # <<>> /\ \A k \in DOMAIN truth : truth[k]
     ELSE LET toks == Slice(d.cond, rule.cond)
          IN WellFormed(toks, rule.sels.count) /\ CondHolds(toks, truth)

\* The fields an event is routed by.
RouteNames == << "event.category", "techno", "product", "technology",
                 "observer.product", "event.provider", "event.module",
                 "event.dataset", "log.syslog.appname" >>

RouteTokens(ev) == {Value(ev, n) : n \in ToSet(RouteNames)} \ {NoVal, <<>>}

\* The rules of the buckets an event belongs to, and of the always-verify bucket;
\* every rule when nothing says where it belongs.
InScope(d, ev) ==
  IF d.keys = <<>> \/ RouteTokens(ev) = {} THEN DOMAIN d.rules
  ELSE UNION {ToSet(Slice(d.bucketIdx, d.buckets[b])) :
                b \in {c \in DOMAIN d.keys : d.keys[c] \in RouteTokens(ev) \cup {<<>>}}}
=============================================================================
