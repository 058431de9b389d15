SPECIFICATION FairSpec
CONSTANTS
  c1 = c1
  c2 = c2
  t1 = t1
  t2 = t2
  Conns = {c1, c2}
  Targets = {t1, t2}
  Nil = Nil
  Bodies <- MCBodies
  KindsOf <- MCKindsOf
  MaxReloads = 1
CONSTRAINT MCApart
INVARIANTS
  ReloadApplies
  BodysSurvive
  ResponseMerged
PROPERTIES
  RequestAnswered
