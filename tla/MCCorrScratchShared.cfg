SPECIFICATION Spec
CONSTANTS
  Free = Free
  Workers = {w1, w2}
  Corrs = {1, 2}
  Percents = {0, 50, 100}
  MaxEvents = 2
  Vals = {1, 2, 3}
INVARIANT ParallelEvaluationSafe
