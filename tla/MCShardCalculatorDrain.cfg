SPECIFICATION Spec
CONSTANTS
  Senders = {t1}
  Durations = {5}
  MaxSamplesPerSend = 1
  MaxShards = 3
  MaxSamples = 1
  MaxTicks = 7
CONSTRAINT MCAtomicIncr
INVARIANT SomeShard
