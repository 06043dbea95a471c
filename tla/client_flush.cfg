\* One client that is flushed while its workers are busy.
SPECIFICATION FairSpec
CONSTANTS
  Workers = {w1, w2}
  MaxClients = 1
  MaxFlushes = 1
  MaxJobs = 3
  JobCapacity = 1
INVARIANTS TypeOK OwnRequests DivisorPositive AmountOfCreated
PROPERTIES FlushClean FlushReturns ImplementsPool
\* Nobody has to call again, and the bounds stop the sender.
CHECK_DEADLOCK FALSE
