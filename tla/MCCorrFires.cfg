SPECIFICATION SpecFires
CONSTANTS
  Free = Free
  NoKey = NoKey
  Workers = {w1, w2}
  Keys = {k1, k2, k3}
  r1 = r1
  Rids = {r1}
  NCorrs = 1
  MaxGroups = 2
  Timespan <- MCTimespan
  Watchers <- MCWatchers
  Events <- MCEvents
  SweepInterval = 1
  MaxLag = 0
  MaxTime = 3
  MaxCalls = 4
SYMMETRY Symmetric
PROPERTIES FiresSpaced RecentGroupSurvives SweepSparesLit
