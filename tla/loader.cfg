\* A whole test, with -q or without, against a server as slow as it likes.
SPECIFICATION FairSpec
CONSTANTS
  Urls <- MCUrls
  Supposed = {0, 1}
  MaxWorkers = 2
  JobCapacity = 1
  BufferSize = 1
  MaxDue = 2
INVARIANTS TypeOK OneReader LimiterSerial QuietEnd BurstMeasures
PROPERTIES Ends ImplementsPlan
