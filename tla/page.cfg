\* Samples of two stages, with connections that outlive the first.
SPECIFICATION PageSpec
CONSTANTS
  Conns = {c1}
  MaxNews = 1
  MaxCloses = 2
  MaxMoves = 1
  Word = 16
  Quantiles = {"0.5", "0.99"}
  Limits = {1}
  MaxServed = 1
  MaxSamples = 3
INVARIANTS TypeOK GaugeIsOpen BarsAreGrowth NothingTwice Aligned ConnectionsPlausible
\* The bounds stop every goroutine.
CHECK_DEADLOCK FALSE
