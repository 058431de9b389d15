SPECIFICATION FairSpec
CONSTANTS
  None = None
  j1 = j1
  v1 = v1
  v2 = v2
  g1 = g1
  g2 = g2
  g3 = g3
  x = x
  y = y
  Jobs = {j1}
  Versions = {v1, v2}
  Groups = {g1, g2, g3}
  Targets = {x, y}
  Configs <- MCConfigs
  GroupsOf <- MCGroupsOf
  Source <- MCSource
  FromGroup <- MCFromGroup
  MaxReloads = 2
INVARIANTS
  TypeOK
  SetsMatchConfig
  NoSetLeaks
  PanicsNeedOverlap
PROPERTIES
  Converges
  StopReturns
