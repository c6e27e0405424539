SPECIFICATION Spec
CONSTANTS
    Files <- ThreeFiles
    Paths <- ThreePaths
    Ignored = {"c"}
    Docs <- PlainDocs
    InitialDisks <- ThreeDisks
    Torn = Torn
    NoDoc = NoDoc
    Rules <- MCRules
    FixableRules <- MCFixableRules
    Finds <- MCFinds
    Repair <- MCRepair
    Usable <- MCUsable
    BadSettings = {}
    MaxPasses = 10
    MaxFaults = 1
    MaxSaves = 1
INVARIANTS NeverTorn ReportMatchesDisk FixIsIdempotent
CHECK_DEADLOCK FALSE
