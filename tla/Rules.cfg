SPECIFICATION RulesSpec
CONSTANTS
    A = A
    B = B
    NoName = NoName
    NoRepo = NoRepo
    Here = Here
    There = There
    Local = Local
    Shipped = Shipped
    Other = Other
    Third = Third
    Url = Url
    Fork = Fork
    kEntry = kEntry
    kStart = kStart
    kFinish = kFinish
    kSum = kSum
    E = E
    A1 = A1
    A2 = A2
    M = M
    D = D
    Callers = {Here, There}
    Keys = {kEntry, kStart, kFinish, kSum}
    Change <- Changes
    Original = Original
    Absent = Absent
    None = None
    Git = TRUE
    MaxStops = 2
INVARIANTS
    GraphHolds
    SetupConverges
    ServicesHold
    WritesSettle
    TerminalHolds
    PublishedOnceAndWhole
PROPERTIES
    ChecksStayPassed
    SetupKeepsEdits
    CommittedIsFinal
    RecordsKeys
CHECK_DEADLOCK FALSE
SYMMETRY Symmetry
