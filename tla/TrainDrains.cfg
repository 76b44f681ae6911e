CONSTANTS
  Pull = {1, 2, 3}
  Depends <- Chain
  Stackings <- Shapes
  Late = {3}
  MaxPushes = 0
  MaxFailures = 1
SPECIFICATION FairSpec
CHECK_DEADLOCK FALSE
PROPERTY QueueDrains
