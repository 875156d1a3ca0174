SPECIFICATION Spec
CONSTANTS
  MaxEvents = 3
  Span = 2
  MaxLag = 2
  MaxTime = 5
  Vals = {1, 2}
  MaxLog = 5
INVARIANTS TypeOK RingIsLogSuffix LossIsCounted StaleWithinLag WindowExact
PROPERTY ImplementsQueue
