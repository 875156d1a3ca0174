SPECIFICATION Spec
CONSTANTS
  Free = Free
  Workers = {w1, w2}
  Corrs = {1, 2}
  Percents = {0, 50, 100}
  MaxEvents = 3
  Vals = {1, 2}
INVARIANTS TypeOK PercentileExact
