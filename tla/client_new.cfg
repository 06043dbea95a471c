\* A second client is made while the first one serves its backlog.
SPECIFICATION FairSpec
CONSTANTS
  Workers = {w1, w2}
  MaxClients = 2
  MaxFlushes = 0
  MaxJobs = 2
  JobCapacity = 2
INVARIANTS LedgerBalanced SuccessWithinSum
PROPERTIES JobsServed
\* Nobody has to call again, and the bounds stop the sender.
CHECK_DEADLOCK FALSE
