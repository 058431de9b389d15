SPECIFICATION FairSpec
CONSTANTS
  Local = Local
  None = None
  Void = Void
  r1 = r1
  r2 = r2
  Remotes = {r1, r2}
  Queries = {q1}
  Series = {x, y}
  RemotesOf <- MCGrowing
  MaxReloads = 1
INVARIANTS
  TypeOK
  MetricIsDefined
  ResultsWereAnswered
  UncontestedMerged
PROPERTIES
  LocalStays
  QueryReturns
