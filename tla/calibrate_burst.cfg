\* A burst with errors.
SPECIFICATION Spec
CONSTANTS
  Bursts <- MCBursts
  Unit = 1000
  MaxErrors = 3
  MaxTurns = 10
INVARIANTS HalvedOverTwoPercent
\* The load phase is the end of the model.
CHECK_DEADLOCK FALSE
