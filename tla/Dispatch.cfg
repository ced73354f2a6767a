SPECIFICATION Spec
CONSTANTS
    None = None
    Procs <- AllProcs
    Specs <- AllSpecs
    Steps <- MCSteps
    Commands <- WorkflowCommands
    StateFields <- MCStateFields
    Values <- MCValues
    FieldValues <- OneDraft
    Branches = {}
    MaxInsts = 3
    MaxOps = 1
    Handles = {h1}
    Batches <- ContractBatches
    Held = FALSE
    d1 = d1
    d2 = d2
INVARIANTS
    ReplayAgrees
CHECK_DEADLOCK FALSE
