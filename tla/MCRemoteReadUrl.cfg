SPECIFICATION Spec
CONSTANTS
  Local = Local
  None = None
  Void = Void
  r1 = r1
  r2 = r2
  Remotes = {r1, r2}
  Queries = {q1, q2}
  Series = {x}
  RemotesOf <- MCSingle
  MaxReloads = 0
INVARIANT AnswersOwnQuestion
