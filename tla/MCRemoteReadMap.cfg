SPECIFICATION Spec
CONSTANTS
  Local = Local
  None = None
  Void = Void
  r1 = r1
  r2 = r2
  Remotes = {r1, r2}
  Queries = {q1}
  Series = {x}
  RemotesOf <- MCBoth
  MaxReloads = 0
INVARIANT EveryAnswerMerged
