SPECIFICATION StoresSpec
CONSTANTS
    Parts <- Safety
    None = None
    Absent = Absent
    Unset = Unset
    q1 = q1
    q2 = q2
    Processes = {q1, q2}
    MaxBatch = 1
    MaxFrames = 3
    MaxCuts = 1
    Gone = Gone
    p1 = p1
    p2 = p2
    p3 = p3
    kEntry = kEntry
    kDrop = kDrop
    E = E
    A1 = A1
    A2 = A2
    N = N
    a = a
    b = b
    h1 = h1
    h2 = h2
    old = old
    f1 = f1
    f2 = f2
    v = v
    g = g
    n1 = n1
    n2 = n2
    s1 = s1
    s2 = s2
INVARIANTS
    StoresTypeOK
    LogKept
    StagedKept
    IndexWhole
    MappingsHeld
    ReadsAreReal
PROPERTIES
    ImplementsSessionLog
    OnlyDueRemoved
    NothingLost
    DropLeavesNoOrphan
CHECK_DEADLOCK FALSE
SYMMETRY Symmetry
