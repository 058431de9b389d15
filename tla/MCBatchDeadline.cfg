SPECIFICATION Spec
CONSTANTS
  MaxSamplesPerSend = 5
  BatchSendDeadline = 4
INVARIANT WaitsWithinDeadline
