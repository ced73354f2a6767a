SPECIFICATION Spec
CONSTANTS
    None = None
    Procs <- AllProcs
    Specs <- AllSpecs
    Steps <- MCSteps
    Commands <- WorkflowCommands
    StateFields <- MCStateFields
    Values <- MCValues
    FieldValues <- OneDraft
    Branches = {}
    MaxInsts = 2
    MaxOps = 1
    Handles = {h1, h2}
    Batches <- ContractBatches
    Held = FALSE
    d1 = d1
    d2 = d2
INVARIANTS
    SessionInv
    LogReplays
    OneShellUntilTheEnd
    NothingEndsPending
PROPERTIES
    OnlyResolvedWhilePending
SYMMETRY HandleSymmetry
CHECK_DEADLOCK FALSE
