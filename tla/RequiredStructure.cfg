SPECIFICATION Spec
CONSTANTS
  Cases <- MCCases
  Patterns <- MCPatterns
  Constraints <- MCConstraints
  Links <- MCLinks
  Registry <- MCRegistry
  MatcherCacheCap = 2
  MaxIncludeDepth = 2
  MaxPasses = 10
INVARIANTS
  CleanIsConforming
  ConformingIsClean
  WalkersAgree
  ComposedKeepsObligations
  FixSettles
CHECK_DEADLOCK FALSE
