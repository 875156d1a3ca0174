---------------------------- MODULE MCSigmaMatch ----------------------------
(***************************************************************************)
(* Artifacts and events for the matcher.  Words are spelled in the letters *)
(* below, upper case included, and z starts no needle.                     *)
(***************************************************************************)
EXTENDS SigmaMatch

ABC == <<97, 98, 99>>
BCD == <<98, 99, 100>>
XY  == <<120, 121>>
UpABC == <<65, 66, 67>>
UpBCD == <<66, 67, 68>>
Web == <<119>>
App == <<97>>
Sml == <<115>>

MCRegex == <<122, 46>> :> {<<122, 122, 120, 89, 122>>}

sl(start, count) == [start |-> start, count |-> count]

Pred(field, op, value, group) ==
  [ field |-> field, op |-> op, value |-> value, group |-> group, ival |-> 5,
    cs |-> FALSE, neg |-> FALSE, ref |-> FALSE ]

Tok(kind, sel) == [kind |-> kind, sel |-> sel]
Ref(rule, field, clause) == [rule |-> rule, field |-> field, clause |-> clause]
Rule(sels, cond) == [sels |-> sels, cond |-> cond]

\* 1: port > 5 and msg contains ABC; 2: msg contains ABC or BCD, in two buckets;
\* 3: not (port exists), always verified; 4: cmd = BCD and not (cmd = msg);
\* 5: cmd ends with BCD, a rule of the always-verify bucket with a literal.
Routed5 ==
  [ frame |-> "ok", version |-> 5,
    fields |-> <<"event.category", "msg", "cmd", "port">>,
    values |-> <<ABC, BCD>>, cidrs |-> <<>>,
    preds |-> << Pred(4, "gt", NoId, 1), Pred(2, "contains", 1, 2),
                 Pred(2, "contains", 1, 1), Pred(2, "contains", 2, 1),
                 Pred(4, "exists", NoId, 1),
                 Pred(3, "eq", 2, 1), [Pred(3, "eq", 2, 1) EXCEPT !.ref = TRUE],
                 Pred(3, "endswith", 2, 1) >>,
    sels |-> <<sl(1, 2), sl(3, 2), sl(5, 1), sl(6, 1), sl(7, 1), sl(8, 1)>>,
    cond |-> << Tok("sel", 1), Tok("not", 0),
                Tok("sel", 1), Tok("sel", 2), Tok("not", 0), Tok("and", 0) >>,
    rules |-> << Rule(sl(1, 1), sl(1, 0)), Rule(sl(2, 1), sl(1, 0)),
                 Rule(sl(3, 1), sl(1, 2)), Rule(sl(4, 2), sl(3, 4)),
                 Rule(sl(6, 1), sl(1, 0)) >>,
    keys |-> <<Web, App, Sml, <<>> >>,
    buckets |-> <<sl(1, 2), sl(3, 2), sl(5, 1), sl(6, 2)>>,
    bucketIdx |-> <<1, 2, 4, 2, 1, 3, 5>>,
    needles |-> <<ABC, UpBCD>>, posts |-> <<sl(1, 2), sl(3, 3)>>,
    postRefs |-> <<Ref(1, 2, 1), Ref(2, 2, 1), Ref(2, 2, 1), Ref(4, 3, 1), Ref(5, 3, 1)>>,
    litav |-> <<3>>, clauses |-> <<2, 1, 0, 1, 1>>,
    fwit |-> <<[rule |-> 1, field |-> 4, clause |-> 2, op |-> "gt", ival |-> 5]>> ]

\* Version 4, no category field and a needle posted to any field.
\* 1: msg contains XY or port <= 5; 2: cmd in a network, always verified;
\* 3: a condition that underflows.
Unscoped4 ==
  [ frame |-> "ok", version |-> 4,
    fields |-> <<"msg", "cmd", "port">>, values |-> <<XY, ABC>>, cidrs |-> <<{ABC}>>,
    preds |-> << Pred(1, "startswith", 2, 1), Pred(3, "lte", NoId, 1),
                 Pred(2, "cidr", 1, 1), Pred(1, "contains", 1, 1) >>,
    sels |-> <<sl(1, 1), sl(2, 1), sl(3, 1), sl(4, 1)>>,
    cond |-> <<Tok("sel", 1), Tok("sel", 2), Tok("or", 0), Tok("sel", 1), Tok("and", 0)>>,
    rules |-> <<Rule(sl(1, 2), sl(1, 3)), Rule(sl(3, 1), sl(1, 0)),
                Rule(sl(3, 1), sl(4, 2)), Rule(sl(4, 1), sl(1, 0))>>,
    keys |-> <<Web, App>>, buckets |-> <<sl(1, 3), sl(4, 2)>>,
    bucketIdx |-> <<1, 3, 4, 4, 2>>,
    needles |-> <<XY>>, posts |-> <<sl(1, 1)>>, postRefs |-> <<Ref(4, AnyField, 1)>>,
    litav |-> <<1, 2, 3>>, clauses |-> <<0, 0, 0, 1>>,
    fwit |-> <<Ref(1, 9, 9)>> ]

\* The same with a needle that is posted nowhere, which is scanned for all the same.
Unposted4 ==
  [ Unscoped4 EXCEPT !.posts = <<sl(1, 0)>>, !.postRefs = <<>>,
                     !.litav = <<1, 2, 3, 4>>, !.clauses = <<0, 0, 0, 0>> ]

\* No bucket and no literal.  1: msg matches z. ; 2: port = 5; 3: a pattern that
\* does not compile, negated.
Plain5 ==
  [ Unscoped4 EXCEPT
      !.version = 5, !.values = << <<122, 46>>, <<91>> >>,
      !.preds = << Pred(1, "re", 1, 1), Pred(3, "numeq", NoId, 1),
                   [Pred(1, "re", 2, 1) EXCEPT !.neg = TRUE] >>,
      !.sels = <<sl(1, 1), sl(2, 1), sl(3, 1)>>, !.cond = <<>>,
      !.rules = <<Rule(sl(1, 1), sl(1, 0)), Rule(sl(2, 1), sl(1, 0)),
                  Rule(sl(3, 1), sl(1, 0))>>,
      !.keys = <<>>, !.buckets = <<>>, !.bucketIdx = <<>>, !.needles = <<>>,
      !.posts = <<>>, !.postRefs = <<>>, !.litav = <<>>, !.clauses = <<>>, !.fwit = <<>> ]

\* Rejected: a clause the rule does not have, a torn frame, a pattern without text.
BadClause  == [Routed5 EXCEPT !.postRefs[2].clause = 2]
BadFrame   == [Routed5 EXCEPT !.frame = "crc"]
BadPattern == [Plain5 EXCEPT !.preds[1].value = NoId]

\* Accepted, though rule 2 has a clause no atom credits.
LostClause == [Routed5 EXCEPT !.clauses[2] = 2]

\* Four that keep what a compiler promises, and three the loader rejects.
Written    == <<Routed5, Unscoped4, Unposted4, Plain5>>
ArtSound   == Written \o <<BadClause, BadFrame, BadPattern>>
ArtUnsound == <<Routed5, LostClause>>

Event(cat, techno, msg, cmd, port) ==
  [ n \in {"event.category", "techno", "msg", "cmd", "port"} |->
      CASE n = "event.category" -> cat
        [] n = "techno" -> techno
        [] n = "msg" -> msg
        [] n = "cmd" -> cmd
        [] n = "port" -> port ]

Present(ev) == [n \in {m \in DOMAIN ev : ev[m] # NoVal} |-> ev[n]]

\* A needle on the last byte of a chunk; a field with another field's needle; routes
\* to two buckets, to one and to none; half of rule 1's clauses, and the other half.
MCEvents ==
  {Present(ev) : ev \in {
     Event(Web, App, <<122, 122, 122>> \o UpABC \o <<122, 122>>, BCD, <<54>>),
     Event(Web, NoVal, <<122, 122, 122, 122, 122>>, UpBCD, <<55>>),
     Event(NoVal, App, BCD, BCD, NoVal),
     Event(App, NoVal, <<122, 122, 120, 89, 122>>, ABC, <<53, 47>>),
     Event(<<>>, NoVal, <<97, 98, 98>> \o BCD, <<122>> \o BCD, <<57, 57>>),
     Event(NoVal, Sml, ABC, BCD, <<53>>),
     Event(NoVal, Sml, ABC, NoVal, <<54>>) }}

\* The databases of the runs are what the theorems on the matcher ask of a compiled
\* one, but for the lost clause: that one breaks the last promise and no other.
ASSUME CompiledAsPromised ==
  \A a \in ToSet(Written) : LoadResult(a) = "ok" /\ AsPromised(Loaded(a))

ASSUME LostClauseIsLost ==
  LET d == Loaded(LostClause)
  IN /\ LoadResult(LostClause) = "ok"
     /\ Grouped(d) /\ DistinctKeys(d) /\ AllWide(d) /\ PostedWhereNamed(d)
     /\ ~LiteralsNecessary(d)
=============================================================================
