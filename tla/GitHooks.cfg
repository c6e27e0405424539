SPECIFICATION Spec
CONSTANTS
    Texts <- MCTexts
    Includes <- MCIncludes
    Unrepresentable = {"!b"}
    Hashed = {"#c"}
    Linters = {l1}
    Fixer = fixer
    Ignores <- MCIgnores
    Files <- MCFiles
    Scopes <- MCScopes
    MaxEdits = 1
    MaxInstalls = 1
    MaxFaults = 1
    MaxRestarts = 1
PROPERTIES FixEndsDrift UserLinesKept StaleDriftHeals
