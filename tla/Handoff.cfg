CONSTANTS
  Session = {1, 2}
  Worktree = {w1}
  w1 = w1
  None = None
  MaxHeads = 2
  MaxReruns = 1
  MaxNotes = 1
  MaxDeaths = 2
SPECIFICATION FairSpec
CHECK_DEADLOCK FALSE
INVARIANTS
  HandedOverOnce
  ParkedIsRerun
PROPERTY HandoffSettles
