SPECIFICATION Spec
CONSTANTS
  Free = Free
  NoKey = NoKey
  Workers = {w1, w2}
  Keys = {k1, k2}
  r1 = r1
  r2 = r2
  Rids = {r1, r2}
  NCorrs = 2
  MaxGroups = 1
  Timespan <- MCTimespan
  Watchers <- MCWatchers
  Events <- MCEvents
  SweepInterval = 1
  MaxLag = 0
  MaxTime = 2
  MaxCalls = 2
PROPERTY EveryCallReturns
