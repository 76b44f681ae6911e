CONSTANTS
  Issue = {1, 2, 3, 4}
  Dependency <- Meeting
  Nobody = Nobody
SPECIFICATION FairDecisionSpec
CHECK_DEADLOCK FALSE
INVARIANTS
  Decides
PROPERTY Terminates
