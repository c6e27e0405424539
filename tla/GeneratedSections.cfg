CONSTANTS
    A = A
    B = B
    C = C
    D = D
    Gone = Gone
    sub = sub
    ref = ref
    s1 = s1
    s2 = s2
    s3 = s3
    Up = Up
    File = {A, B, C, D}
    NoFM = NoFM
    NoDir = NoDir
    Lost = Lost
    DirOf <- MCDirOf
    FrontMatter <- MCFrontMatter
    Rank <- MCRank
    Number <- MCNumber
    Injecting = {s3}
    GitIgnored = {C}
    MaxIncludeDepth = 2
    MaxPasses = 10
    MaxRuns = 3

SPECIFICATION Spec

INVARIANTS
    AuthoredIsKept
    CleanIsFlattened
    WellFormedIsClean

CHECK_DEADLOCK FALSE
