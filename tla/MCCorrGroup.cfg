SPECIFICATION Spec
CONSTANTS
  Settings <- MCSettings
  Clocks = {"processing", "event", "watermark"}
  Conds = {TRUE, FALSE}
  Ops = {"gte", "eq"}
  MaxDistinct = 2
  Slack = 2
  Vals <- MCVals
  Counts = {0, 2}
  NBases = 2
  MaxSeen = 2
  Order <- MCOrder
  Accept <- MCAccept
  WmCap = 3
  MaxEvents = 4
  NBuckets = 5
  CvPermille = 400
  Presence = 700
  CountMod = 8
  NoVal = NoVal
CHECK_DEADLOCK FALSE
INVARIANTS TypeOK DistinctExact DistinctHeld TemporalExact TemporalSound OrderedSound
           PendingWithinSlack ReplayOrdered AggregateExact HistogramExact GapsExact
PROPERTY SequencesDisjoint
