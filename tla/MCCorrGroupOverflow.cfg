SPECIFICATION Spec
CONSTANTS
  Settings <- OverflowSettings
  Clocks = {"watermark"}
  Conds = {FALSE}
  Ops = {"gte"}
  MaxDistinct = 2
  Slack = 3
  Vals = {1}
  Counts = {0}
  NBases = 2
  MaxSeen = 2
  Order <- MCOrder
  Accept <- MCAccept
  WmCap = 3
  MaxEvents = 4
  NBuckets = 5
  CvPermille = 400
  Presence = 700
  CountMod = 8
  NoVal = NoVal
CHECK_DEADLOCK FALSE
INVARIANT ReplayAlwaysOrdered
