CONSTANTS
  Subject = {1, 2, 3, 4, 5}
  Root = {r1}
  r1 = r1
  None = None
  Depends <- Wave
  P0 = {1, 2, 3, 4, 5}
  Admitted = {1, 2, 3, 4, 5}
  Foreign = {4}
  Boundary <- MCBoundary
  Declared <- Five
  MaxCommits = 2
  Rewritten = {}
  MaxEdits = 1
SPECIFICATION AnsweredWindowSpec
INVARIANTS
  LanesDisjoint
  OneClaimPerComponent
  ClaimedDependenciesLanded
PROPERTIES
  StandingPullRequestBlocks
