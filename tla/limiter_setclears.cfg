\* SetLimit while start() is filling ch.
SPECIFICATION Spec
CONSTANTS
  Callers = {main}
  Rates = {1, 3}
  MaxRate = 3
  BufferSize = 3
  Second = 1
  ZeroTime <- MCZeroTime
  MaxTime = 3
  MaxSets = 2
PROPERTIES SetLimitClears
\* The clock stops at MaxTime and a stopped limiter has nothing left to do.
CHECK_DEADLOCK FALSE
