\* Samples of the only phase when -q is given.
SPECIFICATION SamplerSpec
CONSTANTS
  Workers = {w1, w2}
  MaxClients = 1
  MaxFlushes = 0
  MaxJobs = 3
  JobCapacity = 1
  MaxSamples = 1
SYMMETRY WorkerSymmetry
INVARIANTS ErrorsKeepUp CodesCoverTotal
\* The bounds stop the sender and the sampler; a crash ends the program.
CHECK_DEADLOCK FALSE
