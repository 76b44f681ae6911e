SPECIFICATION FairSpec
CONSTANTS
    Root = {r1}
    Issue = {1, 2}
    Depends <- MCDepends
    FirstIssues <- MCFirstIssues
    Drafts <- MCDrafts
    Ceiling = 2
    MaxEmpty = 3
    MaxEdits = 1
    MaxFailures = 1
INVARIANTS TypeOK HoldMatchesHistory
PROPERTIES OldEditsKept ReopenedNamed ReadySurfaced TwinsNamed BareReopens
CHECK_DEADLOCK FALSE
