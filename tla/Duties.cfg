CONSTANTS
  Ids = {s1, s2}
  Calls = {c1, c2}
  Prefix = s
  None = none
  p1 = p1
  p2 = p2
  Paths = {p1, p2}
  Globs <- MCGlobs
  MaxClaims = 3
  Children = {k1, k2}
SPECIFICATION MCSpec
INVARIANTS IdIsOwn DrainedIsMarked BoardTells RecycledPidSpared NothingSurvives
