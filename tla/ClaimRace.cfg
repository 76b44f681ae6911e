CONSTANTS
  Subject = {1}
  Root = {r1, r2}
  r1 = r1
  r2 = r2
  None = None
  Depends = {}
  P0 = {1}
  Admitted = {1}
  Foreign = {}
  Boundary <- OneBoundary
  Declared <- One
  MaxCommits = 1
  Rewritten <- Rewrites
  MaxEdits = 1
SPECIFICATION SteadySpec
INVARIANTS
  Ownership
PROPERTIES
  OwnsLanes
  OrphanReturns
