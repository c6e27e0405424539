SPECIFICATION Spec
CONSTANTS
  Documents <- Sources
  Profiles <- Settings
  MaxPasses = 10
INVARIANTS
  FixConverges
  CleanAfterFix
  BlocksAreKept
CHECK_DEADLOCK FALSE
