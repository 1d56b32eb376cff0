SPECIFICATION FairSpec
CONSTANTS
  X <- Names
  Point <- SmallPoint
  Solution <- SmallSolution
  LL = {"o"}
  opt_var = "o"
  StatusVar = "s"
  LastVar = "y"
  UniformVar = "y"
  SolFrom = "y"
  SolTo = "y"
  CompleteVar = "y"
  Options <- All
INVARIANTS
  LevelsRight
PROPERTIES
  AnswersRightly
  SearchEnds
