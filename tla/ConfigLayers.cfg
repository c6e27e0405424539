SPECIFICATION Spec
CONSTANTS
  Lists <- MCLists
  Category <- MCCategory
  Defaults <- MCDefaults
  Loaded <- MCLoaded
  Files <- MCFiles
INVARIANTS
  ExplainIsEffect
  ChainTellsTheValue
  CategoriesSpareTheUser
  LazyFieldsMissNothing
CHECK_DEADLOCK FALSE
