\* Two goroutines call SetLimit and Stop while the generator runs and messages
\* are received.
SPECIFICATION FairSpec
CONSTANTS
  Callers = {c1, c2}
  Rates = {0, 3}
  MaxRate = 3
  BufferSize = 2
  Second = 2
  ZeroTime <- MCZeroTime
  MaxTime = 4
  MaxSets = 2
INVARIANTS TypeOK Accounts RateBound StopQuiet LimitRestored OnRate
PROPERTIES Flows CallsReturn ImplementsBudget
\* The clock stops at MaxTime and a stopped limiter has nothing left to do.
CHECK_DEADLOCK FALSE
