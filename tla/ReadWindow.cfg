CONSTANTS
  Subject = {1, 2, 3, 4}
  Root = {r1, r2}
  r1 = r1
  r2 = r2
  None = None
  Depends <- Bridge
  P0 = {1, 2, 3}
  Admitted = {1, 2, 3, 4}
  Foreign = {}
  Boundary <- MCBoundary
  Declared <- Four
  MaxCommits = 2
  Rewritten = {}
  MaxEdits = 0
SPECIFICATION SingleOrdersSpec
SYMMETRY RootSymmetry
INVARIANTS
  OneClaimPerComponent
