\* One document, the dispatcher and one settings fetch; no symmetry, for the
\* sake of the liveness property.
SPECIFICATION FairSpec
CONSTANTS
    Uris = {a}
    Tokens = {t1, t2}
    Dispatcher = dispatcher
    Fetchers = {f1}
    Ignored <- MCIgnored
    None = none
    MaxEdits = 2
    MaxConf = 1
INVARIANTS
    LatestConfigCovered SettledEditorIsCurrent
PROPERTY TextIsPublished
