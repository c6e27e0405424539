\* Two callbacks, one file, watched batches with and without a config change.
SPECIFICATION FairSpec
CONSTANTS
    Readers = {r1, r2}
    Paths = {a}
    Entries = {e1, e2, e3}
    None = none
    WithConfig = {TRUE, FALSE}
    MaxChanges = 1
    MaxMessages = 1
INVARIANT OneBuildPerInvalidation
PROPERTIES ReadsAreFresh LoadsReturn
