SPECIFICATION Spec
CONSTANTS
    None = None
    Procs <- CaptureProcs
    Specs <- CaptureSpecs
    Steps <- MCSteps
    Commands <- WorkflowCommands
    StateFields <- MCStateFields
    Values <- MCValues
    FieldValues <- MCFieldValues
    Branches = {}
    MaxInsts = 2
    MaxOps = 1
    Handles = {h1}
    Batches <- DraftBatches
    Held = FALSE
    d1 = d1
    d2 = d2
INVARIANTS
    TypeOK
    ReplayAgrees
    PublishesWhatWasAgreed
SYMMETRY DraftSymmetry
CHECK_DEADLOCK FALSE
