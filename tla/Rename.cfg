CONSTANTS
    Self = Self
    NoFrag = NoFrag
    BadLabel = BadLabel
    A = A
    B = B
    Hid = Hid
    img = img
    l1 = l1
    l2 = l2
    l3 = l3
    dir = dir
    adr = adr
    guide = guide
    draft = draft
    T = T
    Up = Up
    ConfigFile = ConfigFile
    PathOf <- MCPathOf
    DeclaredKinds <- MCDeclaredKinds
    AssignedKinds <- MCAssignedKinds
    Files <- MCFiles
    Discovered <- MCDiscovered
    Jobs <- MCJobs
    MaxRuns = 2
SPECIFICATION Spec
CHECK_DEADLOCK FALSE
INVARIANTS
    ReferencesFollow
    NoNewBrokenLink
    NavigationAgrees
