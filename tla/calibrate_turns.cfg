\* Ten seconds of the adjustment stage, with errors at any moment.
SPECIFICATION Spec
CONSTANTS
  Bursts <- MCBursts
  Unit = 1000
  MaxErrors = 3
  MaxTurns = 10
INVARIANTS TypeOK ErrorsAnsweredOnce NotBelowBurst
PROPERTIES NoGrowthOnErrors Spaced
\* The load phase is the end of the model.
CHECK_DEADLOCK FALSE
