---------------------------- MODULE MCCorrGroup -----------------------------
(***************************************************************************)
(* CorrGroup for TLC.                                                      *)
(***************************************************************************)
EXTENDS CorrGroup

\* Against the order of base_rule_ids.
MCOrder == <<2, 1>>

\* "1 and not 2" or "2 and not 1".
MCAccept == {{1}, {2}}

Setting(span, count, lastTime, maxLog) ==
  [span |-> span, count |-> count, lastTime |-> lastTime, maxLog |-> maxLog]

\* Five buckets for seven seconds; an event or two past the window everywhere.
MCSettings ==
  [ value_count |-> Setting(2, 2, 3, 4),
    temporal |-> Setting(2, 1, 4, 3), temporal_ordered |-> Setting(2, 1, 3, 4),
    event_count |-> Setting(2, 3, 3, 4),
    value_sum |-> Setting(1, 3, 2, 3), value_avg |-> Setting(1, 1, 2, 3),
    beaconing |-> Setting(5, 3, 6, 5), beaconing_bucketed |-> Setting(7, 3, 8, 4) ]

OverflowSettings == [temporal_ordered |-> Setting(2, 1, 6, 6)]

MergeSettings == [event_count |-> Setting(2, 2, 4, 3)]

MCVals == {-1, 1, 3}
=============================================================================
