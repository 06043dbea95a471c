\* A status code or error message that comes up while a sample is taken.
SPECIFICATION FairSamplerSpec
CONSTANTS
  Workers = {w1}
  MaxClients = 1
  MaxFlushes = 0
  MaxJobs = 2
  JobCapacity = 1
  MaxSamples = 1
PROPERTIES SampleCompletes
\* The bounds stop the sender and the sampler; a crash ends the program.
CHECK_DEADLOCK FALSE
