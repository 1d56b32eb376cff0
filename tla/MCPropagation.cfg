SPECIFICATION FairSpec
CONSTANTS
  vx = vx
  vy = vy
  vz = vz
  vr = vr
  Var = {vx, vy, vz}
  Bool = {vr}
  Domains <- MixedDomains
  Problems <- Both
  MaxLevel = 2
INVARIANTS
  FlagsMatchQueues
  FixPointReached
  SolutionsKept
  KeptStateTrue
PROPERTIES
  PropagationEnds
