\* A request that fails.
SPECIFICATION Spec
CONSTANTS
  Workers = {w1}
  MaxClients = 1
  MaxFlushes = 0
  MaxJobs = 1
  JobCapacity = 1
INVARIANTS FailedNotSuccess
\* Nobody has to call again, and the bounds stop the sender.
CHECK_DEADLOCK FALSE
