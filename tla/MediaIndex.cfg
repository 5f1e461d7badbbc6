SPECIFICATION Spec
CONSTANTS
  a = a
  b = b
  f1 = f1
  f2 = f2
  f3 = f3
  s1 = s1
  s2 = s2
  None = None
  Items <- MCItems
  Folders <- MCFolders
  Roots = {"r1", "r2"}
  Sources = {s1, s2}
  Jobs = {1, 2, 3}
  MaxTime = 9
  MaxFile = 3
  MaxURL = 1
  GuardMinimum = 0
  MaxTargetPaths = 2
  PurgeAfter = 2
  MaxAttempts = 2
  Worlds <- MCWorlds
INVARIANTS
  Followed
  IndexTrue
