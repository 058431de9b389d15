SPECIFICATION FairSpec
CONSTANTS
  None = None
  Appenders = {a1}
  Endpoints = {e1, e2}
  MaxReloads = 2
  MaxSamples = 2
INVARIANTS
  EndpointOrder
  OnlyStopPanics
  AppendFindsRunning
PROPERTY
  CallsReturn
  ImplementsEndpointDelivery
