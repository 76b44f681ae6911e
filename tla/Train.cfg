CONSTANTS
  Pull = {1, 2, 3}
  Depends <- Chain
  Stackings <- OneWave
  Late = {}
  MaxPushes = 1
  MaxFailures = 0
SPECIFICATION FairSpec
CHECK_DEADLOCK FALSE
INVARIANTS
  MarkedIsMerged
  PushesBounded
PROPERTY OwnerWorkKept
