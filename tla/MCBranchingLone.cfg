SPECIFICATION Spec
CONSTANTS
  Dom0 <- Three
  BoolVars = {"b"}
  Configs <- Lone
  Activity <- Busy
  MaxConflicts = 2
  MaxStarts = 3
  MaxSolutions = 1
CHECK_DEADLOCK FALSE
INVARIANTS
  SolutionsFixed
