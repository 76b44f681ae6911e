SPECIFICATION Spec
CONSTANTS
    Pull = {p1, p2}
    Path <- MCPath
    PolicyPath <- policy
    Workflow <- MCWorkflow
    ComponentName = {"a", "b", "all"}
    FirstTrees <- MCFirstTrees
    Deltas <- MCDeltas
    Contracts <- MCContracts
    MaxPushes = 1
    MaxEdits = 1
INVARIANTS TypeOK HostedDisjoint HostedAfterHandoff
PROPERTIES AdmittedAtMerge HostedConfined
CHECK_DEADLOCK FALSE
SYMMETRY Symmetry
