CONSTANTS
  Subject = {1}
  Root = {r1}
  Sweeper = {w1, w2}
  r1 = r1
  w1 = w1
  w2 = w2
  Home <- OneHome
  None = None
  Depends = {}
  P0 = {1}
  Admitted = {1}
  Foreign = {}
  Boundary <- SrcBoundary
  Declared <- SrcDeclared
  RepairMaxAttempts = 1
  MaxCommits = 2
  MaxRuns = 2
  MaxFailures = 2
  Rewritten = {}
  MaxEdits = 0
SPECIFICATION QuietSpec
INVARIANTS
  PreservedBeforeFlip
PROPERTIES
  FreedSafely
  ResidueFreed
