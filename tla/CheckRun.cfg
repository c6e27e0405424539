SPECIFICATION FairCheckSpec
CONSTANTS
    Names <- MCNames
    Early <- MCEarly
    Markdown <- MCMarkdown
    Here = Here
    Up = Up
    Stars = Stars
    r = r
    s = s
    t = t
    e = e
    z = z
    x = x
    y = y
    notes = notes
    l = l
    k = k
    pipe = pipe
    Files <- MCFiles
    PathOf <- MCPathOf
    Commands <- MCCommands
    ConfigFile <- MCConfigFile
    Artifact <- MCArtifact
    RuleCount = 5
    NodeRules = {1}
    ConfigRules = {5}
    RepoRules <- MCRepoRules
    NoConfig = NoConfig
    Jobs <- MCJobs
    MaxWorkers = 3
    Registry = Registry
INVARIANTS EachFindingOnce ChecksWhatIsMeant
PROPERTIES RunIsSequential CheckEnds
CHECK_DEADLOCK FALSE
