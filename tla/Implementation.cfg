SPECIFICATION Spec
CONSTANTS
    None = None
    Procs <- AllProcs
    Specs <- AllSpecs
    Steps <- MCSteps
    Commands <- WorkflowCommands
    StateFields <- MCStateFields
    Values <- MCValues
    FieldValues <- OneDraft
    Branches = {}
    MaxInsts = 2
    MaxOps = 3
    Handles = {h1}
    Batches <- WorkBatches
    Held = FALSE
    d1 = d1
    d2 = d2
PROPERTIES
    CancelledAsksAgain
    ImplementsProtocol
CHECK_DEADLOCK FALSE
