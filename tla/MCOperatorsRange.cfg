SPECIFICATION OperatorsSpec
CONSTANTS
  Earliest = 0
  Latest = 9
  LabelNames = {ext, usr}
  LabelValues = {a, b}
  Absent = Absent
  HostPorts = {"h:9090", "k:1"}
  BareHosts = {"h", "h/x"}
  Slashed = {"h/x"}
  InvalidValues = {"#"}
  MetaLabels = {"__meta_m"}
  ParamOf <- MCParamOf
  Half = 16
  NanosPerTick = 2
  MaxPoints = 3
INVARIANT RangeAsDocumented
