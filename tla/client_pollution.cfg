\* The jobs that a client leaves behind when the next one is made.
SPECIFICATION Spec
CONSTANTS
  Workers = {w1, w2}
  MaxClients = 2
  MaxFlushes = 0
  MaxJobs = 2
  JobCapacity = 2
SYMMETRY WorkerSymmetry
INVARIANTS OnlyItsRequests
\* Nobody has to call again, and the bounds stop the sender.
CHECK_DEADLOCK FALSE
