SPECIFICATION Spec
CONSTANTS
  m1 = m1
  m2 = m2
  m3 = m3
  s1 = s1
  s2 = s2
  Appenders = {a1, a2}
  Metrics = {m1, m2, m3}
  Series = {s1, s2}
  NoSeries = NoSeries
  Relabel <- MCRelabel
  Hash <- MCHash
  QueueCapacity = 2
  MaxShards = 2
  MaxSamplesPerSend = 2
  MaxRetries = 2
  Desired <- MCDesired
  MaxReshards = 2
  MaxSamples = 3
SYMMETRY MCSymmetry
INVARIANTS
  TypeOK
  InOrder
  OneGenerationRuns
  Accounted
  StopFlushes
  GaugeTracksQueues
PROPERTY
  ImplementsOrderedDelivery
