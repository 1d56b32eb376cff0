SPECIFICATION FairSpec
CONSTANTS
  Runs <- AllRuns
  MaxClause = 14
INVARIANTS
  LearntEntailed
  NothingMissed
  ReasonsHold
  AnalysisMarks
  NoneTwice
PROPERTIES
  BackjumpAsserts
  EnumeratesSolutions
  Terminates
