SPECIFICATION Spec
CONSTANTS
    Text <- MCText
    Jobs <- MCJobs
    Absent = Absent
    Torn = Torn
    MaxFaults = 1
INVARIANTS WorkTreeRestored SectionConflictIsResolved ProseConflictIsKept
CHECK_DEADLOCK FALSE
